---- MODULE Spec2Model ----
(***************************************************************************)
(* Customer / order management system (client_management_system.py).       *)
(*                                                                         *)
(* The in-memory customer list, order list and the two id counters of      *)
(* CustomerManagementSystem, the dialog-driven add / edit / delete         *)
(* handlers, the CSV loaders, the Excel importer and the database load,    *)
(* together with the field coercions they use.                             *)
(*                                                                         *)
(* Representation                                                          *)
(*   text     a sequence of one-character strings, <<"a", "b">> is "ab"    *)
(*   float    an integer number of hundredths (300 is 3.0); the rounding   *)
(*            of IEEE doubles is not modelled                              *)
(*   cell     a value read from a file: a record [t, s, n] with the kind   *)
(*            t, the text s (kind "str" and "date") and the number n       *)
(*            (kind "num", hundredths; kind "inf", the sign)               *)
(***************************************************************************)
EXTENDS Integers, Sequences, FiniteSets, TLC

VARIABLES
    customers,          \* self.customers: sequence of customer records
    orders,             \* self.orders: sequence of order records
    next_customer_id,   \* self.next_customer_id
    next_order_id,      \* self.next_order_id
    last,               \* the handler that ran last, its inputs and outcome
    probe,              \* the coercion under test: its input and its result
    stored,             \* the tables customers and orders of PostgreSQL
    metabase,           \* the sync threads that save_to_database started
    service             \* the MetabaseSyncService of metabase_sync.py

vars == <<customers, orders, next_customer_id, next_order_id, last, probe,
          stored, metabase, service>>

\* What is outside the application's lists
outside == <<stored, metabase, service>>

(***************************************************************************)
(* Bounds of the model.                                                    *)
(***************************************************************************)
MaxCustomers == 2      \* customers in the list
MaxOrders == 2         \* orders in the list
MaxRows == 2           \* rows of an imported file
MaxId == 3             \* value of the two id counters

(***************************************************************************)
(* Text.                                                                   *)
(***************************************************************************)
IsSpace(c) == c = " "

RECURSIVE LStrip(_)
LStrip(s) == IF s # <<>> /\ IsSpace(Head(s)) THEN LStrip(Tail(s)) ELSE s

RECURSIVE RStrip(_)
RStrip(s) ==
    IF s # <<>> /\ IsSpace(s[Len(s)]) THEN RStrip(SubSeq(s, 1, Len(s) - 1)) ELSE s

\* str.strip()
Strip(s) == RStrip(LStrip(s))

LowerChar(c) ==
    CASE c = "A" -> "a"
      [] c = "B" -> "b"
      [] c = "I" -> "i"
      [] c = "N" -> "n"
      [] c = "F" -> "f"
      [] OTHER -> c

\* str.lower()
Lower(s) == IF s = <<>> THEN <<>> ELSE [i \in 1..Len(s) |-> LowerChar(s[i])]

\* sub in s
Contains(sub, s) ==
    \E i \in 0..(Len(s) - Len(sub)) : SubSeq(s, i + 1, i + Len(sub)) = sub

Digits == <<"0", "1", "2", "3", "4", "5", "6", "7", "8", "9">>

IsDigit(c) == \E d \in 1..10 : Digits[d] = c

DigitVal(c) == (CHOOSE d \in 1..10 : Digits[d] = c) - 1

AllDigits(s) == s # <<>> /\ \A i \in 1..Len(s) : IsDigit(s[i])

RECURSIVE NatOf(_)
NatOf(s) ==
    IF s = <<>> THEN 0
    ELSE NatOf(SubSeq(s, 1, Len(s) - 1)) * 10 + DigitVal(s[Len(s)])

RECURSIVE DigitsOf(_)
DigitsOf(n) ==
    IF n < 10 THEN <<Digits[n + 1]>>
    ELSE DigitsOf(n \div 10) \o <<Digits[(n % 10) + 1]>>

RECURSIVE ZeroPad(_, _)
ZeroPad(s, width) == IF Len(s) >= width THEN s ELSE ZeroPad(<<"0">> \o s, width)

\* f"{n:0{width}d}" for n >= 0
FormatInt(n, width) == ZeroPad(DigitsOf(n), width)

\* f"ORD{n:03d}"
OrderId3(n) == <<"O", "R", "D">> \o FormatInt(n, 3)

\* f"ORD{n:05d}"
OrderId5(n) == <<"O", "R", "D">> \o FormatInt(n, 5)

(***************************************************************************)
(* Cells: the values pandas hands to the coercions.                        *)
(***************************************************************************)
Null == [t |-> "null", s |-> <<>>, n |-> 0]          \* NaN / None / NaT
Txt(s) == [t |-> "str", s |-> s, n |-> 0]            \* a str
Num(n) == [t |-> "num", s |-> <<>>, n |-> n]         \* a finite number
Inf(sign) == [t |-> "inf", s |-> <<>>, n |-> sign]   \* float("inf") / -inf
DateCell(iso) == [t |-> "date", s |-> iso, n |-> 0]  \* a datetime / Timestamp

\* pd.isna(value)
IsNa(v) == v.t = "null"

\* row.get(col, default) / col in row.index and row[col]
Get(row, col, default) == IF col \in DOMAIN row THEN row[col] ELSE default

(***************************************************************************)
(* Python floats and the results of the coercions.                         *)
(***************************************************************************)
FNum(v) == [k |-> "num", v |-> v]           \* a finite float, in hundredths
FInf(sign) == [k |-> "inf", v |-> sign]     \* inf / -inf
FNan == [k |-> "nan", v |-> 0]
FErr(e) == [k |-> e, v |-> 0]               \* float() raised e

\* What a coercion hands back: a value of kind k, or the exception exc it let
\* escape.
RInt(n) == [exc |-> "none", k |-> "int", v |-> n, s |-> <<>>]
RFloat(f) == [exc |-> "none", k |-> f.k, v |-> f.v, s |-> <<>>]
RText(s) == [exc |-> "none", k |-> "text", v |-> 0, s |-> s]
Raised(e) == [exc |-> e, k |-> "none", v |-> 0, s |-> <<>>]

RECURSIVE IndexOf(_, _)
IndexOf(s, c) ==
    IF s = <<>> THEN 0
    ELSE IF Head(s) = c THEN 1
    ELSE LET r == IndexOf(Tail(s), c) IN IF r = 0 THEN 0 ELSE r + 1

\* The first two fractional digits, as hundredths.
Hundredths(frac) == NatOf(SubSeq(frac \o <<"0", "0">>, 1, 2))

\* float() of an unsigned decimal literal: digits, optionally a point and
\* digits, at least one digit (exponents are outside the model's alphabet).
UnsignedFloat(body) ==
    LET dot == IndexOf(body, ".")
        ip == IF dot = 0 THEN body ELSE SubSeq(body, 1, dot - 1)
        fp == IF dot = 0 THEN <<>> ELSE SubSeq(body, dot + 1, Len(body))
        digits(x) == \A i \in 1..Len(x) : IsDigit(x[i])
    IN  IF digits(ip) /\ digits(fp) /\ Len(ip) + Len(fp) > 0
        THEN FNum(NatOf(ip) * 100 + Hundredths(fp))
        ELSE FErr("ValueError")

\* float(text)
FloatOfText(text) ==
    LET s == Strip(text)
        signed == s # <<>> /\ Head(s) \in {"-", "+"}
        sign == IF signed /\ Head(s) = "-" THEN -1 ELSE 1
        body == IF signed THEN Tail(s) ELSE s
        word == Lower(body)
    IN  IF word \in {<<"i", "n", "f">>, <<"i", "n", "f", "i", "n", "i", "t", "y">>}
        THEN FInf(sign)
        ELSE IF word = <<"n", "a", "n">> THEN FNan
        ELSE LET u == UnsignedFloat(body)
             IN  IF u.k = "num" THEN FNum(sign * u.v) ELSE u

\* float(value)
ToFloat(value) ==
    CASE value.t = "num" -> FNum(value.n)
      [] value.t = "inf" -> FInf(value.n)
      [] value.t = "str" -> FloatOfText(value.s)
      [] value.t = "null" -> FNan
      [] OTHER -> FErr("TypeError")

\* int(x) of a finite float: truncation toward zero
Trunc(v) == IF v >= 0 THEN v \div 100 ELSE -((-v) \div 100)

\* int(f) inside try / except (ValueError, TypeError), f being what
\* float(value) gave: int(inf) raises OverflowError, which is not caught
IntOrOne(f) ==
    CASE f.k = "num" -> RInt(Trunc(f.v))
      [] f.k = "inf" -> Raised("OverflowError")
      [] OTHER -> RInt(1)

\* CustomerManagementSystem.parse_int
parse_int(value) == IF IsNa(value) THEN RInt(1) ELSE IntOrOne(ToFloat(value))

\* f inside try / except (ValueError, TypeError), f being what float(value)
\* gave
FloatOrZero(f) ==
    IF f.k \in {"num", "inf", "nan"} THEN RFloat(f) ELSE RFloat(FNum(0))

\* CustomerManagementSystem.parse_float
parse_float(value) ==
    IF IsNa(value) THEN RFloat(FNum(0)) ELSE FloatOrZero(ToFloat(value))

\* ExcelDataImporter._parse_int
excel_parse_int(value) == IF IsNa(value) THEN RInt(1) ELSE IntOrOne(ToFloat(value))

\* ExcelDataImporter._parse_float
excel_parse_float(value) ==
    IF IsNa(value) THEN RFloat(FNum(0)) ELSE FloatOrZero(ToFloat(value))

(***************************************************************************)
(* Dates.                                                                  *)
(***************************************************************************)
\* datetime.now() / date.today(), as YYYY-MM-DD
Today == <<"2", "0", "2", "6", "-", "1", "1", "-", "0", "2">>

DayCell(iso) == [t |-> "day", s |-> iso, n |-> 0]    \* a datetime.date

RECURSIVE SplitBy(_, _)
SplitBy(s, sep) ==
    LET i == IndexOf(s, sep)
    IN  IF i = 0 THEN <<s>>
        ELSE <<SubSeq(s, 1, i - 1)>> \o SplitBy(SubSeq(s, i + 1, Len(s)), sep)

IsLeap(y) == (y % 4 = 0 /\ y % 100 # 0) \/ y % 400 = 0

DaysIn(y, m) ==
    CASE m \in {4, 6, 9, 11} -> 30
      [] m = 2 -> IF IsLeap(y) THEN 29 ELSE 28
      [] OTHER -> 31

\* A strptime format of three fields and one separator: "%d.%m.%Y" is
\* Fmt(<<"d", "m", "Y">>, ".").
Fmt(order, sep) == [order |-> order, sep |-> sep]

NoDate == [ok |-> FALSE, y |-> 0, m |-> 0, d |-> 0]

\* The date in the fields parts of a text, read by the format fmt
DateOfFields(parts, fmt) ==
    LET fieldOk(i) ==
            /\ AllDigits(parts[i])
            /\ IF fmt.order[i] = "Y" THEN Len(parts[i]) = 4
               ELSE Len(parts[i]) \in {1, 2}
        val(c) == NatOf(parts[CHOOSE i \in 1..3 : fmt.order[i] = c])
    IN  IF Len(parts) = 3 /\ \A i \in 1..3 : fieldOk(i)
        THEN IF /\ val("Y") >= 1
                /\ val("m") \in 1..12
                /\ val("d") >= 1
                /\ val("d") <= DaysIn(val("Y"), val("m"))
             THEN [ok |-> TRUE, y |-> val("Y"), m |-> val("m"), d |-> val("d")]
             ELSE NoDate
        ELSE NoDate

\* datetime.strptime(text, fmt): %Y is four digits, %m and %d one or two.
strptime(text, fmt) == DateOfFields(SplitBy(text, fmt.sep), fmt)

\* date_obj.strftime("%Y-%m-%d")
strftime(dt) ==
    FormatInt(dt.y, 4) \o <<"-">> \o FormatInt(dt.m, 2) \o <<"-">> \o FormatInt(dt.d, 2)

\* for fmt in date_formats: try strptime ... except ValueError: continue
RECURSIVE FirstFormat(_, _)
FirstFormat(text, formats) ==
    IF formats = <<>> THEN NoDate
    ELSE LET dt == strptime(text, Head(formats))
         IN  IF dt.ok THEN dt ELSE FirstFormat(text, Tail(formats))

\* repr of a finite float: 300 is "3.0", 350 is "3.5", 305 is "3.05"
FloatText(n) ==
    LET a == IF n < 0 THEN -n ELSE n
        frac == IF a % 10 = 0 THEN <<Digits[((a % 100) \div 10) + 1]>>
                ELSE FormatInt(a % 100, 2)
    IN  (IF n < 0 THEN <<"-">> ELSE <<>>) \o DigitsOf(a \div 100) \o <<".">> \o frac

\* str(value)
StrOf(value) ==
    CASE value.t = "str" -> value.s
      [] value.t = "day" -> value.s
      [] value.t = "date" ->
            value.s \o <<" ", "0", "0", ":", "0", "0", ":", "0", "0">>
      [] value.t = "num" -> FloatText(value.n)
      [] value.t = "inf" ->
            (IF value.n < 0 THEN <<"-">> ELSE <<>>) \o <<"i", "n", "f">>
      [] OTHER -> <<"n", "a", "n">>

CsvDateFormats ==
    << Fmt(<<"Y", "m", "d">>, "-"),
       Fmt(<<"d", "m", "Y">>, "."),
       Fmt(<<"m", "d", "Y">>, "/"),
       Fmt(<<"d", "m", "Y">>, "-"),
       Fmt(<<"Y", "m", "d">>, "/") >>

\* return date_obj.strftime("%Y-%m-%d") for the format that matched, today's
\* date when none did
DateOrToday(dt) == IF dt.ok THEN RText(strftime(dt)) ELSE RText(Today)

\* CustomerManagementSystem.parse_date
parse_date(value) ==
    IF IsNa(value) THEN RText(Today)
    ELSE DateOrToday(FirstFormat(Strip(StrOf(value)), CsvDateFormats))

ExcelDateFormats ==
    << Fmt(<<"Y", "m", "d">>, "-"),
       Fmt(<<"d", "m", "Y">>, "."),
       Fmt(<<"d", "m", "Y">>, "/"),
       Fmt(<<"m", "d", "Y">>, "/"),
       Fmt(<<"Y", "m", "d">>, "."),
       Fmt(<<"d", "m", "Y">>, "-"),
       Fmt(<<"Y", "m", "d">>, "/") >>

\* ExcelDataImporter._parse_date
excel_parse_date(value) ==
    IF IsNa(value) THEN RText(Today)
    ELSE IF value.t = "date" THEN RText(value.s)
    ELSE IF value.t = "str"
         THEN DateOrToday(FirstFormat(Strip(value.s), ExcelDateFormats))
    ELSE RText(Today)

\* CustomerManagementSystem.clean_string
clean_string(value) == IF IsNa(value) THEN <<>> ELSE Strip(StrOf(value))

(***************************************************************************)
(* Records.  Column names and fixed texts of the program are Russian; the  *)
(* model writes them in Latin letters: FIO is the customer file's name     *)
(* column, FIO_klienta the order file's customer column, ID_zakaza the     *)
(* order id column, Kolichestvo quantity, Cena_za_sht unit price,          *)
(* Skidka_pct discount, Itogovaya_cena final price, Obshchaya_summa total. *)
(***************************************************************************)
Empty == <<>>

\* 'Ожидает оплаты', the default order status
AwaitingPayment == <<"w", "a", "i", "t">>

\* 'Самовывоз', the Excel importer's default delivery method
Pickup == <<"p", "i", "c", "k">>

\* 'Создан автоматически при импорте заказов'
AutoCreatedNote == <<"a", "u", "t", "o">>

Customer(id, full_name, email, phone, registration_date, notes) ==
    [ id |-> id, full_name |-> full_name, email |-> email, phone |-> phone,
      registration_date |-> registration_date, notes |-> notes,
      total_orders |-> 0, total_spent |-> 0 ]

\* The application's data: customers, orders and the two counters.
State(c, o, nc, no) ==
    [ customers |-> c, orders |-> o, next_customer_id |-> nc, next_order_id |-> no ]

\* CustomerManagementSystem.setup_database
setup_database == State(<<>>, <<>>, 1, 1)

\* price * (1 - discount / 100), all in hundredths
FinalPrice(price, discount) == (price * (10000 - discount)) \div 10000

\* quantity * price * (1 - discount / 100)
DialogTotal(quantity, price, discount) ==
    (quantity * price * (10000 - discount)) \div 10000

\* CustomerManagementSystem.find_customer_by_id: the index of the first
\* customer with this id, 0 for None
find_customer_by_id(cs, customer_id) ==
    IF \E i \in 1..Len(cs) : cs[i].id = customer_id
    THEN CHOOSE i \in 1..Len(cs) :
            /\ cs[i].id = customer_id
            /\ \A j \in 1..(i - 1) : cs[j].id # customer_id
    ELSE 0

\* CustomerManagementSystem.get_selected_order: the index of the first order
\* with the id shown in the selected row of the orders table, 0 for None
get_selected_order(os, order_id) ==
    IF \E i \in 1..Len(os) : os[i].id = order_id
    THEN CHOOSE i \in 1..Len(os) :
            /\ os[i].id = order_id
            /\ \A j \in 1..(i - 1) : os[j].id # order_id
    ELSE 0

\* OrderManager.get_customer_orders
get_customer_orders(customer_id, os) ==
    SelectSeq(os, LAMBDA o : o.customer_id = customer_id)

\* sum(order.get('total_amount', 0) for order in os)
RECURSIVE TotalAmount(_)
TotalAmount(os) ==
    IF os = <<>> THEN 0 ELSE Head(os).total_amount + TotalAmount(Tail(os))

\* OrderManager.get_customer_total_spent
get_customer_total_spent(customer_id, os) ==
    TotalAmount(get_customer_orders(customer_id, os))

\* The characters of a date text, in the order of their code points
DateAlphabet == <<" ", "-", ".", "/">> \o Digits \o <<":">>

\* a < b for two texts, as Python compares str
RECURSIVE TextLess(_, _)
TextLess(a, b) ==
    IF b = <<>> THEN FALSE
    ELSE IF a = <<>> THEN TRUE
    ELSE IF Head(a) = Head(b) THEN TextLess(Tail(a), Tail(b))
    ELSE IndexOf(DateAlphabet, Head(a)) < IndexOf(DateAlphabet, Head(b))

\* max(texts) of a non-empty set of texts
MaxText(texts) == CHOOSE t \in texts : \A u \in texts : ~TextLess(t, u)

\* The statistics of a customer without orders; last_order.ok = FALSE is
\* None
NoStatistics ==
    [ total_orders |-> 0, total_amount |-> 0,
      average_order |-> [num |-> 0, den |-> 1],
      last_order |-> [ok |-> FALSE, s |-> Empty] ]

\* The statistics of the orders customer_orders, of which there is one at
\* least; average_order is the quotient num / den
Statistics(customer_orders, order_dates) ==
    [ total_orders |-> Len(customer_orders),
      total_amount |-> TotalAmount(customer_orders),
      average_order |-> [num |-> TotalAmount(customer_orders),
                         den |-> Len(customer_orders)],
      last_order |-> IF order_dates # {} THEN [ok |-> TRUE, s |-> MaxText(order_dates)]
                     ELSE [ok |-> FALSE, s |-> Empty] ]

\* The dates of orders that have one
OrderDates(customer_orders) ==
    { customer_orders[i].date :
        i \in { j \in 1..Len(customer_orders) : customer_orders[j].date # Empty } }

\* get_customer_order_statistics, had it taken the date of the customer's
\* last order for last_order
get_customer_order_statistics_by_position(customer_id, os) ==
    IF get_customer_orders(customer_id, os) = <<>> THEN NoStatistics
    ELSE Statistics(get_customer_orders(customer_id, os),
            { get_customer_orders(customer_id, os)[
                Len(get_customer_orders(customer_id, os))].date })

\* OrderManager.get_customer_order_statistics
get_customer_order_statistics(customer_id, os) ==
    IF get_customer_orders(customer_id, os) = <<>> THEN NoStatistics
    ELSE Statistics(get_customer_orders(customer_id, os),
                    OrderDates(get_customer_orders(customer_id, os)))

\* ReportGenerator.generate_customer_summary, the figures of the head of
\* the report: one pass over the customers, which counts a customer and
\* adds what the customer spent when the customer has orders
RECURSIVE generate_customer_summary(_, _)
generate_customer_summary(cs, os) ==
    IF cs = <<>>
    THEN [total_customers |-> 0, customers_with_orders |-> 0, total_revenue |-> 0]
    ELSE IF get_customer_orders(cs[Len(cs)].id, os) # <<>>
    THEN [ generate_customer_summary(SubSeq(cs, 1, Len(cs) - 1), os) EXCEPT
             !.total_customers = @ + 1,
             !.customers_with_orders = @ + 1,
             !.total_revenue = @ + get_customer_total_spent(cs[Len(cs)].id, os) ]
    ELSE [ generate_customer_summary(SubSeq(cs, 1, Len(cs) - 1), os) EXCEPT
             !.total_customers = @ + 1 ]

\* ReportGenerator.generate_order_statistics, the figures of the head of
\* the report (found = FALSE: the report says that there are no orders);
\* the average is the quotient total_revenue / total_orders
generate_order_statistics(os) ==
    IF os = <<>> THEN [found |-> FALSE, total_orders |-> 0, total_revenue |-> 0]
    ELSE [found |-> TRUE, total_orders |-> Len(os), total_revenue |-> TotalAmount(os)]

\* ReportGenerator.generate_customer_summary, the lines of the details of the
\* report: one entry for each customer of the list
customer_summary_details(cs, os) ==
    [ i \in 1..Len(cs) |->
        [ id |-> cs[i].id, full_name |-> cs[i].full_name,
          orders |-> Len(get_customer_orders(cs[i].id, os)),
          spent |-> get_customer_total_spent(cs[i].id, os),
          registration_date |-> cs[i].registration_date ] ]

\* reg_date[:7]
YearMonth(reg_date) ==
    SubSeq(reg_date, 1, IF Len(reg_date) < 7 THEN Len(reg_date) ELSE 7)

\* sorted(monthly_registrations.keys())
RECURSIVE SortedTexts(_)
SortedTexts(texts) ==
    IF texts = {} THEN <<>>
    ELSE <<CHOOSE t \in texts : \A u \in texts : ~TextLess(u, t)>>
            \o SortedTexts(texts \ {CHOOSE t \in texts : \A u \in texts : ~TextLess(u, t)})

\* The number of customers of cs registered in the month
RegisteredIn(cs, month) ==
    Cardinality({ i \in 1..Len(cs) :
                    /\ cs[i].registration_date # Empty
                    /\ YearMonth(cs[i].registration_date) = month })

\* The lines of the months, in the order of the sorted months
MonthLines(cs, months) ==
    [ k \in 1..Len(months) |-> [month |-> months[k], count |-> RegisteredIn(cs, months[k])] ]

\* ReportGenerator.generate_registration_analysis: the customers with a
\* registration date counted by its first seven characters, the months
\* sorted, and the number of customers
generate_registration_analysis(cs, date_from, date_to) ==
    [ months |-> MonthLines(cs, SortedTexts(
                    { YearMonth(cs[i].registration_date) :
                        i \in { j \in 1..Len(cs) : cs[j].registration_date # Empty } })),
      total |-> Len(cs) ]

\* The orders that bring a status the orders before them do not have
FirstOfStatus(os) ==
    SelectSeq([ i \in 1..Len(os) |-> i ],
              LAMBDA i : \A k \in 1..(i - 1) : os[k].status # os[i].status)

\* status_counts of generate_order_statistics: a dict, which keeps the
\* statuses in the order in which the orders bring them
status_counts(os) ==
    [ n \in 1..Len(FirstOfStatus(os)) |->
        [ status |-> os[FirstOfStatus(os)[n]].status,
          count |-> Cardinality({ k \in 1..Len(os) :
                                    os[k].status = os[FirstOfStatus(os)[n]].status }) ] ]

\* customers_with_orders of generate_customer_activity: a pair of the
\* customer and the number of its orders, for each customer that has orders
customers_with_orders(cs, os) ==
    SelectSeq([ i \in 1..Len(cs) |->
                  [ customer |-> cs[i],
                    order_count |-> Len(get_customer_orders(cs[i].id, os)) ] ],
              LAMBDA pair : pair.order_count > 0)

\* Where a sort by falling number of orders would leave the last pair of a
\* list whose other pairs are sorted, had it put the pair in front of the
\* pairs with as many orders
RECURSIVE InsertByCountInFront(_, _)
InsertByCountInFront(sorted, pair) ==
    IF sorted = <<>> THEN <<pair>>
    ELSE IF Head(sorted).order_count > pair.order_count
    THEN <<Head(sorted)>> \o InsertByCountInFront(Tail(sorted), pair)
    ELSE <<pair>> \o sorted

\* Where list.sort(key=lambda x: x[1], reverse=True) leaves the last pair of
\* a list whose other pairs are sorted: the sort is stable, so the pair goes
\* behind the pairs with as many orders or more
RECURSIVE InsertByCount(_, _)
InsertByCount(sorted, pair) ==
    IF sorted = <<>> THEN <<pair>>
    ELSE IF Head(sorted).order_count >= pair.order_count
    THEN <<Head(sorted)>> \o InsertByCount(Tail(sorted), pair)
    ELSE <<pair>> \o sorted

\* customers_with_orders.sort(key=lambda x: x[1], reverse=True)
RECURSIVE SortByCount(_)
SortByCount(pairs) ==
    IF pairs = <<>> THEN <<>>
    ELSE InsertByCount(SortByCount(SubSeq(pairs, 1, Len(pairs) - 1)), pairs[Len(pairs)])

\* customers_with_orders[:10]
TopShown == 10

\* The lines of the first TopShown pairs
ActivityLines(ranked, os) ==
    [ k \in 1..(IF Len(ranked) < TopShown THEN Len(ranked) ELSE TopShown) |->
        [ full_name |-> ranked[k].customer.full_name,
          order_count |-> ranked[k].order_count,
          total_spent |-> get_customer_total_spent(ranked[k].customer.id, os) ] ]

\* ReportGenerator.generate_customer_activity
generate_customer_activity(cs, os, date_from, date_to) ==
    ActivityLines(SortByCount(customers_with_orders(cs, os)), os)

\* generate_report, had it handed to the reports the orders of the range of
\* dates only
generate_report_in_range(report_type, cs, os, date_from, date_to) ==
    IF report_type = "customer_summary"
    THEN [ report |-> report_type,
           head |-> generate_customer_summary(cs, os),
           lines |-> customer_summary_details(cs, os) ]
    ELSE IF report_type = "registration_analysis"
    THEN [ report |-> report_type,
           head |-> generate_registration_analysis(cs, date_from, date_to) ]
    ELSE IF report_type = "order_statistics"
    THEN [ report |-> report_type,
           head |-> generate_order_statistics(
                        SelectSeq(os, LAMBDA o : /\ ~TextLess(o.date, date_from)
                                                 /\ ~TextLess(date_to, o.date))),
           lines |-> status_counts(
                        SelectSeq(os, LAMBDA o : /\ ~TextLess(o.date, date_from)
                                                 /\ ~TextLess(date_to, o.date))) ]
    ELSE IF report_type = "customer_activity"
    THEN [ report |-> report_type,
           lines |-> generate_customer_activity(cs, os, date_from, date_to) ]
    ELSE [ report |-> "unknown" ]

\* ReportGenerator.generate_report: what the text of the report says.
\* generate_customer_summary gets no dates; the three other reports get
\* date_from and date_to and do not read them
generate_report(report_type, cs, os, date_from, date_to) ==
    IF report_type = "customer_summary"
    THEN [ report |-> report_type,
           head |-> generate_customer_summary(cs, os),
           lines |-> customer_summary_details(cs, os) ]
    ELSE IF report_type = "registration_analysis"
    THEN [ report |-> report_type,
           head |-> generate_registration_analysis(cs, date_from, date_to) ]
    ELSE IF report_type = "order_statistics"
    THEN [ report |-> report_type,
           head |-> generate_order_statistics(os),
           lines |-> status_counts(os) ]
    ELSE IF report_type = "customer_activity"
    THEN [ report |-> report_type,
           lines |-> generate_customer_activity(cs, os, date_from, date_to) ]
    ELSE [ report |-> "unknown" ]

\* CustomerManagementSystem.find_customer_by_name: index of the first exact,
\* case-insensitive match of the cleaned name, 0 for None
find_customer_by_name(cs, name) ==
    LET clean_name == Lower(clean_string(Txt(name)))
        hit(i) == Lower(cs[i].full_name) = clean_name
    IN  IF \E i \in 1..Len(cs) : hit(i)
        THEN CHOOSE i \in 1..Len(cs) : hit(i) /\ \A j \in 1..(i - 1) : ~hit(j)
        ELSE 0

\* _find_customer_by_name, had it looked for both kinds of match in one
\* pass over the list
excel_find_customer_by_name_in_one_pass(cs, name) ==
    LET clean_name == Lower(Strip(name))
        hit(i) == \/ Lower(cs[i].full_name) = clean_name
                  \/ Contains(clean_name, Lower(cs[i].full_name))
    IN  IF \E i \in 1..Len(cs) : hit(i)
        THEN CHOOSE i \in 1..Len(cs) : hit(i) /\ \A j \in 1..(i - 1) : ~hit(j)
        ELSE 0

\* ExcelDataImporter._find_customer_by_name: the first exact match, else the
\* first customer whose name contains the query, 0 for None
excel_find_customer_by_name(cs, name) ==
    LET clean_name == Lower(Strip(name))
        exact(i) == Lower(cs[i].full_name) = clean_name
        part(i) == Contains(clean_name, Lower(cs[i].full_name))
    IN  IF \E i \in 1..Len(cs) : exact(i)
        THEN CHOOSE i \in 1..Len(cs) : exact(i) /\ \A j \in 1..(i - 1) : ~exact(j)
        ELSE IF \E i \in 1..Len(cs) : part(i)
        THEN CHOOSE i \in 1..Len(cs) : part(i) /\ \A j \in 1..(i - 1) : ~part(j)
        ELSE 0

(***************************************************************************)
(* The dialogs.  A form is what the user typed; result is what save()      *)
(* leaves in dialog.result (ok = FALSE: result is None, the form was       *)
(* invalid or cancelled).                                                  *)
(***************************************************************************)
IsoFormat == Fmt(<<"Y", "m", "d">>, "-")

\* CustomerDialog.validate_form
customer_validate_form(form) ==
    /\ Strip(form.full_name) # <<>>
    /\ strptime(Strip(form.registration_date), IsoFormat).ok

\* CustomerDialog.save / cancel
customer_dialog_result(form) ==
    IF form.saved /\ customer_validate_form(form)
    THEN [ ok |-> TRUE,
           full_name |-> Strip(form.full_name),
           email |-> Strip(form.email),
           phone |-> Strip(form.phone),
           registration_date |-> Strip(form.registration_date),
           notes |-> Strip(form.notes) ]
    ELSE [ ok |-> FALSE, full_name |-> <<>>, email |-> <<>>, phone |-> <<>>,
           registration_date |-> <<>>, notes |-> <<>> ]

\* int(text): an optionally signed run of digits, else ValueError
IntOfText(text) ==
    LET s == Strip(text)
        signed == s # <<>> /\ Head(s) \in {"-", "+"}
        body == IF signed THEN Tail(s) ELSE s
    IN  IF AllDigits(body)
        THEN RInt((IF signed /\ Head(s) = "-" THEN -1 ELSE 1) * NatOf(body))
        ELSE Raised("ValueError")

\* OrderDialog.validate_form
order_validate_form(form) ==
    LET quantity == IntOfText(form.quantity)
        price == FloatOfText(form.price)
        discount == FloatOfText(form.discount)
    IN  /\ Strip(form.date) # <<>>
        /\ Strip(form.book_title) # <<>>
        /\ Strip(form.quantity) # <<>>
        /\ Strip(form.price) # <<>>
        /\ strptime(Strip(form.date), IsoFormat).ok
        /\ quantity.exc = "none"
        /\ price.k \in {"num", "inf", "nan"}
        /\ discount.k \in {"num", "inf", "nan"}
        /\ ~(quantity.v <= 0)
        /\ ~(price.k = "num" /\ price.v < 0)
        /\ ~(price.k = "inf" /\ price.v < 0)
        /\ ~(discount.k = "num" /\ (discount.v < 0 \/ discount.v > 10000))
        /\ ~(discount.k = "inf")

NoOrderResult ==
    [ ok |-> FALSE, date |-> <<>>, book_title |-> <<>>, author |-> <<>>,
      genre |-> <<>>, quantity |-> 0, price |-> 0, discount |-> 0,
      status |-> <<>>, delivery_method |-> <<>>, order_notes |-> <<>> ]

\* OrderDialog.save / cancel (the forms of the model hold finite numbers)
order_dialog_result(form) ==
    IF form.saved /\ order_validate_form(form)
    THEN [ ok |-> TRUE,
           date |-> Strip(form.date),
           book_title |-> Strip(form.book_title),
           author |-> Strip(form.author),
           genre |-> Strip(form.genre),
           quantity |-> IntOfText(form.quantity).v,
           price |-> FloatOfText(form.price).v,
           discount |-> FloatOfText(form.discount).v,
           status |-> form.status,
           delivery_method |-> form.delivery_method,
           order_notes |-> Strip(form.order_notes) ]
    ELSE NoOrderResult

(***************************************************************************)
(* The add / edit / delete handlers, as functions of the data st; r is the  *)
(* result of the dialog the handler opened.                                *)
(***************************************************************************)
\* CustomerManagementSystem.add_customer
add_customer(st, r) ==
    IF r.ok
    THEN [ st EXCEPT
             !.customers = Append(@, Customer(st.next_customer_id, r.full_name,
                              r.email, r.phone, r.registration_date, r.notes)),
             !.next_customer_id = @ + 1 ]
    ELSE st

\* CustomerManagementSystem.edit_customer
edit_customer(st, customer_id, r) ==
    LET i == find_customer_by_id(st.customers, customer_id)
    IN  IF i # 0 /\ r.ok
        THEN [ st EXCEPT
                 !.customers[i] = [ @ EXCEPT
                     !.full_name = r.full_name, !.email = r.email,
                     !.phone = r.phone,
                     !.registration_date = r.registration_date,
                     !.notes = r.notes ] ]
        ELSE st

\* delete_customer without the line that filters self.orders
delete_customer_keeping_orders(st, customer_id, confirm) ==
    IF find_customer_by_id(st.customers, customer_id) # 0 /\ confirm
    THEN [ st EXCEPT
             !.customers = SelectSeq(@, LAMBDA c : c.id # customer_id) ]
    ELSE st

\* delete_customer emptying self.orders instead of filtering it
delete_customer_clearing_orders(st, customer_id, confirm) ==
    IF find_customer_by_id(st.customers, customer_id) # 0 /\ confirm
    THEN [ st EXCEPT
             !.customers = SelectSeq(@, LAMBDA c : c.id # customer_id),
             !.orders = <<>> ]
    ELSE st

\* CustomerManagementSystem.delete_customer
delete_customer(st, customer_id, confirm) ==
    IF find_customer_by_id(st.customers, customer_id) # 0 /\ confirm
    THEN [ st EXCEPT
             !.customers = SelectSeq(@, LAMBDA c : c.id # customer_id),
             !.orders = SelectSeq(@, LAMBDA o : o.customer_id # customer_id) ]
    ELSE st

\* CustomerManagementSystem.add_order; selected is the id shown in the
\* selected line of the customer listbox
add_order(st, selected, r) ==
    LET i == find_customer_by_id(st.customers, selected)
    IN  IF i # 0 /\ r.ok
        THEN [ st EXCEPT
                 !.orders = Append(@,
                    [ id |-> OrderId3(st.next_order_id),
                      customer_id |-> st.customers[i].id,
                      customer_name |-> st.customers[i].full_name,
                      date |-> r.date, book_title |-> r.book_title,
                      author |-> r.author, genre |-> r.genre,
                      quantity |-> r.quantity, price |-> r.price,
                      discount |-> r.discount,
                      final_price |-> FinalPrice(r.price, r.discount),
                      total_amount |-> DialogTotal(r.quantity, r.price, r.discount),
                      status |-> r.status,
                      delivery_method |-> r.delivery_method,
                      order_notes |-> r.order_notes ]),
                 !.next_order_id = @ + 1 ]
        ELSE st

\* CustomerManagementSystem.edit_selected_order; with no customer for the
\* order the dialog's constructor fails and nothing changes
\* edit_selected_order, had it left final_price and total_amount as they
\* were
edit_selected_order_stale(st, order_id, r) ==
    LET i == get_selected_order(st.orders, order_id)
    IN  IF /\ i # 0
           /\ find_customer_by_id(st.customers, st.orders[i].customer_id) # 0
           /\ r.ok
        THEN [ st EXCEPT
                 !.orders[i] = [ @ EXCEPT
                     !.date = r.date, !.book_title = r.book_title,
                     !.author = r.author, !.genre = r.genre,
                     !.quantity = r.quantity, !.price = r.price,
                     !.discount = r.discount,
                     !.status = r.status,
                     !.delivery_method = r.delivery_method,
                     !.order_notes = r.order_notes ] ]
        ELSE st

edit_selected_order(st, order_id, r) ==
    LET i == get_selected_order(st.orders, order_id)
    IN  IF /\ i # 0
           /\ find_customer_by_id(st.customers, st.orders[i].customer_id) # 0
           /\ r.ok
        THEN [ st EXCEPT
                 !.orders[i] = [ @ EXCEPT
                     !.date = r.date, !.book_title = r.book_title,
                     !.author = r.author, !.genre = r.genre,
                     !.quantity = r.quantity, !.price = r.price,
                     !.discount = r.discount,
                     !.status = r.status,
                     !.delivery_method = r.delivery_method,
                     !.order_notes = r.order_notes,
                     !.total_amount = DialogTotal(r.quantity, r.price, r.discount),
                     !.final_price = FinalPrice(r.price, r.discount) ] ]
        ELSE st

\* CustomerManagementSystem.delete_selected_order
delete_selected_order(st, order_id, confirm) ==
    LET i == get_selected_order(st.orders, order_id)
    IN  IF i # 0 /\ confirm
        THEN [ st EXCEPT
                 !.orders = SelectSeq(@, LAMBDA o : o.id # st.orders[i].id) ]
        ELSE st

(***************************************************************************)
(* The CSV loaders.  A file is [kind, rows]: kind "absent" (no such file,  *)
(* or the file dialog was cancelled), "unreadable" (pandas raises on it)   *)
(* or "rows"; a row is a function from the columns it has to cells.        *)
(***************************************************************************)
NoFile == [kind |-> "absent", rows |-> <<>>]
Unreadable == [kind |-> "unreadable", rows |-> <<>>]
RowsFile(rows) == [kind |-> "rows", rows |-> rows]

\* What a loader leaves behind: the data, and the exception it raised.
Outcome(st, exc) == [st |-> st, exc |-> exc]

\* The body of the loop of load_customers_from_csv, for one row
csv_customer_row(st, row) ==
    LET full_name == clean_string(Get(row, "FIO", Get(row, "full_name", Txt(Empty))))
    IN  IF full_name # <<>>
        THEN [ st EXCEPT
                 !.customers = Append(@,
                    Customer(st.next_customer_id,
                        full_name,
                        clean_string(Get(row, "Email", Get(row, "email", Txt(Empty)))),
                        clean_string(Get(row, "Telefon", Get(row, "phone", Txt(Empty)))),
                        parse_date(Get(row, "Data_registracii",
                                       Get(row, "registration_date", DayCell(Today)))).s,
                        clean_string(Get(row, "Primechaniya",
                                         Get(row, "notes", Txt(Empty)))))),
                 !.next_customer_id = @ + 1 ]
        ELSE st

\* The loop of load_customers_from_csv
RECURSIVE csv_customer_rows(_, _)
csv_customer_rows(st, rows) ==
    IF rows = <<>> THEN st
    ELSE csv_customer_rows(csv_customer_row(st, Head(rows)), Tail(rows))

\* CustomerManagementSystem.load_customers_from_csv
load_customers_from_csv(st, file) ==
    IF file.kind # "rows" THEN Outcome(st, "ReadError")
    ELSE Outcome(csv_customer_rows(
                    [st EXCEPT !.customers = <<>>, !.next_customer_id = 1],
                    file.rows), "none")

\* The order dict built for one row of load_orders_from_csv
csv_order(st, row, customer, customer_name) ==
    [ id |-> clean_string(Get(row, "ID_zakaza",
                Get(row, "order_id", Txt(OrderId3(st.next_order_id))))),
      customer_id |-> customer.id,
      customer_name |-> customer_name,
      date |-> parse_date(Get(row, "Data_zakaza",
                Get(row, "order_date", DayCell(Today)))).s,
      book_title |-> clean_string(Get(row, "Nazvanie_knigi",
                Get(row, "product_name", Txt(Empty)))),
      author |-> clean_string(Get(row, "Avtor", Txt(Empty))),
      genre |-> clean_string(Get(row, "Zhanr", Txt(Empty))),
      quantity |-> parse_int(Get(row, "Kolichestvo", Get(row, "quantity", Num(100)))).v,
      price |-> parse_float(Get(row, "Cena_za_sht", Get(row, "price", Num(0)))).v,
      discount |-> parse_float(Get(row, "Skidka_pct", Get(row, "discount", Num(0)))).v,
      final_price |-> parse_float(Get(row, "Itogovaya_cena",
                Get(row, "final_price", Num(0)))).v,
      total_amount |-> parse_float(Get(row, "Obshchaya_summa",
                Get(row, "total_amount", Num(0)))).v,
      status |-> clean_string(Get(row, "Status_zakaza",
                Get(row, "status", Txt(AwaitingPayment)))),
      delivery_method |-> clean_string(Get(row, "Sposob_dostavki",
                Get(row, "delivery_method", Txt(Empty)))),
      order_notes |-> clean_string(Get(row, "Primechanie_k_zakazu",
                Get(row, "notes", Txt(Empty)))) ]

\* The loop of load_orders_from_csv, had it counted the rows it skips
RECURSIVE csv_order_rows_counting_skipped(_, _)
csv_order_rows_counting_skipped(st, rows) ==
    IF rows = <<>> THEN Outcome(st, "none")
    ELSE LET row == Head(rows)
             customer_name ==
                clean_string(Get(row, "FIO_klienta", Get(row, "client_name", Txt(Empty))))
             i == find_customer_by_name(st.customers, customer_name)
             quantity == parse_int(Get(row, "Kolichestvo", Get(row, "quantity", Num(100))))
         IN  IF i = 0
             THEN csv_order_rows_counting_skipped(
                    [st EXCEPT !.next_order_id = @ + 1], Tail(rows))
             ELSE IF quantity.exc # "none" THEN Outcome(st, quantity.exc)
             ELSE csv_order_rows_counting_skipped(
                    [ st EXCEPT
                        !.orders = Append(@, csv_order(st, row, st.customers[i],
                                                       customer_name)),
                        !.next_order_id = @ + 1 ], Tail(rows))

\* The body of the loop of load_orders_from_csv: an exception of parse_int
\* leaves the loop with the orders appended so far
RECURSIVE csv_order_rows(_, _)
csv_order_rows(st, rows) ==
    IF rows = <<>> THEN Outcome(st, "none")
    ELSE LET row == Head(rows)
             customer_name ==
                clean_string(Get(row, "FIO_klienta", Get(row, "client_name", Txt(Empty))))
             i == find_customer_by_name(st.customers, customer_name)
             quantity == parse_int(Get(row, "Kolichestvo", Get(row, "quantity", Num(100))))
         IN  IF i = 0 THEN csv_order_rows(st, Tail(rows))
             ELSE IF quantity.exc # "none" THEN Outcome(st, quantity.exc)
             ELSE csv_order_rows(
                    [ st EXCEPT
                        !.orders = Append(@, csv_order(st, row, st.customers[i],
                                                       customer_name)),
                        !.next_order_id = @ + 1 ], Tail(rows))

\* CustomerManagementSystem.load_orders_from_csv
load_orders_from_csv(st, file) ==
    IF file.kind # "rows" THEN Outcome(st, "ReadError")
    ELSE csv_order_rows([st EXCEPT !.orders = <<>>, !.next_order_id = 1], file.rows)

\* The names of the two sample customers, shortened
SampleName1 == <<"k">>
SampleName2 == <<"f">>

\* CustomerManagementSystem.load_sample_customers
load_sample_customers(st) ==
    [ st EXCEPT
        !.customers =
            << Customer(1, SampleName1, <<"k", "@">>, <<"+", "4">>,
                        <<"2", "0", "2", "4", "-", "0", "9", "-", "2", "6">>, <<"p">>),
               Customer(2, SampleName2, <<"f", "@">>, <<"+", "5">>,
                        <<"2", "0", "2", "4", "-", "0", "9", "-", "2", "5">>, <<"r">>) >>,
        !.next_customer_id = 3 ]

SampleOrder(id, customer_id, customer_name, date, quantity, price, discount, final_price, total_amount, status) ==
    [ id |-> id, customer_id |-> customer_id, customer_name |-> customer_name,
      date |-> date, book_title |-> <<"t">>, author |-> <<"u">>, genre |-> <<"g">>,
      quantity |-> quantity, price |-> price, discount |-> discount,
      final_price |-> final_price, total_amount |-> total_amount,
      status |-> status, delivery_method |-> Pickup, order_notes |-> <<"n">> ]

\* CustomerManagementSystem.load_sample_orders
load_sample_orders(st) ==
    [ st EXCEPT
        !.orders =
            << SampleOrder(OrderId3(1), 1, SampleName1,
                   <<"2", "0", "2", "4", "-", "0", "9", "-", "2", "7">>,
                   1, 45000, 1000, 40500, 40500, <<"d", "o", "n", "e">>),
               SampleOrder(OrderId3(2), 2, SampleName2,
                   <<"2", "0", "2", "4", "-", "0", "9", "-", "2", "6">>,
                   3, 32000, 1500, 27200, 81600, AwaitingPayment) >>,
        !.next_order_id = 3 ]

\* CustomerManagementSystem.load_sample_data
load_sample_data(st) == load_sample_orders(load_sample_customers(st))

\* CustomerManagementSystem.load_data_from_csv, on the files clients_100.csv
\* and book_orders.csv
load_data_from_csv(st, clients_file, orders_file) ==
    LET c == IF clients_file.kind # "absent"
             THEN load_customers_from_csv(st, clients_file)
             ELSE Outcome(load_sample_customers(st), "none")
        o == IF orders_file.kind # "absent"
             THEN load_orders_from_csv(c.st, orders_file)
             ELSE Outcome(load_sample_orders(c.st), "none")
    IN  IF c.exc # "none" THEN load_sample_data(c.st)
        ELSE IF o.exc # "none" THEN load_sample_data(o.st)
        ELSE o.st

\* CustomerManagementSystem.manual_load_customers
manual_load_customers(st, file) ==
    IF file.kind = "absent" THEN st ELSE load_customers_from_csv(st, file).st

\* CustomerManagementSystem.manual_load_orders
manual_load_orders(st, file) ==
    IF file.kind = "absent" THEN st ELSE load_orders_from_csv(st, file).st

\* CustomerManagementSystem.reload_all_data: setup_database drops the data
\* the application holds, load_data_from_csv reads the two files again
reload_all_data(clients_file, orders_file) ==
    load_data_from_csv(setup_database, clients_file, orders_file)

(***************************************************************************)
(* The Excel importer.                                                     *)
(***************************************************************************)
\* ExcelDataImporter._get_value_from_row
RECURSIVE excel_get_value_from_row(_, _, _)
excel_get_value_from_row(row, possible_columns, default) ==
    IF possible_columns = <<>> THEN default
    ELSE IF Head(possible_columns) \in DOMAIN row
    THEN IF IsNa(row[Head(possible_columns)]) THEN default
         ELSE row[Head(possible_columns)]
    ELSE excel_get_value_from_row(row, Tail(possible_columns), default)

\* bool(value) of a cell
Truthy(value) ==
    CASE value.t = "str" -> value.s # <<>>
      [] value.t = "num" -> value.n # 0
      [] OTHER -> TRUE

\* A cell as it is stored in a record: the text columns of the model's files
\* hold text or nothing, and the text is stored as it is, unstripped.
Stored(value) == IF value.t = "str" THEN value.s ELSE StrOf(value)

\* ExcelDataImporter._process_customer_row: ok = FALSE is None
excel_process_customer_row(row, customer_id) ==
    LET full_name == excel_get_value_from_row(row,
                        <<"FIO", "full_name", "Imya", "Klient", "FIO_klienta">>, Txt(Empty))
        customer_data ==
            Customer(customer_id, Stored(full_name),
                Stored(excel_get_value_from_row(row, <<"Email", "email", "Pochta">>,
                                                Txt(Empty))),
                Stored(excel_get_value_from_row(row, <<"Telefon", "phone", "Mobilnyi">>,
                                                Txt(Empty))),
                excel_parse_date(excel_get_value_from_row(row,
                    <<"Data_registracii", "registration_date", "Data">>,
                    DateCell(Today))).s,
                Stored(excel_get_value_from_row(row,
                    <<"Primechaniya", "notes", "Kommentarii">>, Txt(Empty))))
    IN  [ok |-> Truthy(full_name), customer |-> customer_data]

\* The loop of import_customers_from_excel: row number index gets the id
\* customer_id_start + index
RECURSIVE excel_customer_rows(_, _, _)
excel_customer_rows(rows, customer_id_start, index) ==
    IF index >= Len(rows) THEN <<>>
    ELSE LET r == excel_process_customer_row(rows[index + 1], customer_id_start + index)
         IN  (IF r.ok THEN <<r.customer>> ELSE <<>>)
                \o excel_customer_rows(rows, customer_id_start, index + 1)

\* ExcelDataImporter.import_customers_from_excel: ok = FALSE is None
import_customers_from_excel(st, file) ==
    IF file.kind # "rows" THEN [ok |-> FALSE, customers |-> <<>>]
    ELSE [ok |-> TRUE,
          customers |-> excel_customer_rows(file.rows, st.next_customer_id, 0)]

\* ExcelDataImporter._create_new_customer
excel_create_new_customer(st, customer_name) ==
    Customer(st.next_customer_id, customer_name, Empty, Empty, Today, AutoCreatedNote)

\* ExcelDataImporter._process_order_row, the order dict
excel_order_data(row, order_index, customer, customer_name, quantity, price, discount) ==
    [ id |-> Stored(excel_get_value_from_row(row,
                <<"ID_zakaza", "order_id", "ID zakaza">>,
                Txt(OrderId5(order_index)))),
      customer_id |-> customer.id,
      customer_name |-> customer_name,
      date |-> excel_parse_date(excel_get_value_from_row(row,
                <<"Data_zakaza", "order_date", "Data">>, DateCell(Today))).s,
      book_title |-> Stored(excel_get_value_from_row(row,
                <<"Nazvanie_knigi", "book_title", "Kniga">>, Txt(Empty))),
      author |-> Stored(excel_get_value_from_row(row,
                <<"Avtor", "author">>, Txt(Empty))),
      genre |-> Stored(excel_get_value_from_row(row,
                <<"Zhanr", "genre", "Kategoriya">>, Txt(Empty))),
      quantity |-> quantity,
      price |-> price,
      discount |-> discount,
      final_price |-> FinalPrice(price, discount),
      total_amount |-> FinalPrice(price, discount) * quantity,
      status |-> Stored(excel_get_value_from_row(row,
                <<"Status_zakaza", "status", "Status">>, Txt(AwaitingPayment))),
      delivery_method |-> Stored(excel_get_value_from_row(row,
                <<"Sposob_dostavki", "delivery_method", "Dostavka">>, Txt(Pickup))),
      order_notes |-> Stored(excel_get_value_from_row(row,
                <<"Primechanie_k_zakazu", "notes", "Kommentarii">>, Txt(Empty))) ]

\* ExcelDataImporter._process_order_row from the price calculation on: st1
\* is the data after the customer search, quantity what _parse_int gave (an
\* exception it raised ends the row with None)
excel_priced_order(st1, row, order_index, customer, customer_name, quantity) ==
    IF quantity.exc # "none" THEN [st |-> st1, ok |-> FALSE, order |-> <<>>]
    ELSE [ st |-> st1, ok |-> TRUE,
           order |-> << excel_order_data(row, order_index, customer, customer_name,
                            quantity.v,
                            excel_parse_float(excel_get_value_from_row(row,
                                <<"Cena_za_sht", "price", "Cena">>, Num(0))).v,
                            excel_parse_float(excel_get_value_from_row(row,
                                <<"Skidka_pct", "discount", "Skidka">>, Num(0))).v) >> ]

\* ExcelDataImporter._process_order_row from the customer search on: found
\* is what _find_customer_by_name returned; a customer not found is created
\* and appended to the application's customers
excel_order_of_customer(st, row, order_index, customer_name, found) ==
    excel_priced_order(
        IF found = 0
        THEN [ st EXCEPT
                 !.customers = Append(@, excel_create_new_customer(st, customer_name)),
                 !.next_customer_id = @ + 1 ]
        ELSE st,
        row, order_index,
        IF found = 0 THEN excel_create_new_customer(st, customer_name)
        ELSE st.customers[found],
        customer_name,
        excel_parse_int(excel_get_value_from_row(row,
            <<"Kolichestvo", "quantity", "Kol-vo">>, Num(100))))

\* ExcelDataImporter._process_order_row once the customer cell is read
excel_order_of_name(st, row, order_index, name_cell) ==
    IF ~Truthy(name_cell) THEN [st |-> st, ok |-> FALSE, order |-> <<>>]
    ELSE excel_order_of_customer(st, row, order_index, Stored(name_cell),
            excel_find_customer_by_name(st.customers, Stored(name_cell)))

\* ExcelDataImporter._process_order_row: the data after the row (a customer
\* may have been created) and the order, ok = FALSE for None
excel_process_order_row(st, row, order_index) ==
    excel_order_of_name(st, row, order_index,
        excel_get_value_from_row(row,
            <<"FIO_klienta", "client_name", "Klient", "FIO">>, Txt(Empty)))

\* The loop of import_orders_from_excel: row number index gets the order
\* index order_id_start + index; the rows add customers to the application
\* as they go, the orders are collected in the list acc.orders
RECURSIVE excel_order_rows(_, _, _, _)
RECURSIVE excel_append_order(_, _, _, _, _)
excel_append_order(r, collected, rows, order_id_start, index) ==
    excel_order_rows([st |-> r.st, ok |-> TRUE, orders |-> collected \o r.order],
                     rows, order_id_start, index + 1)

excel_order_rows(acc, rows, order_id_start, index) ==
    IF index >= Len(rows) THEN acc
    ELSE excel_append_order(
            excel_process_order_row(acc.st, rows[index + 1], order_id_start + index),
            acc.orders, rows, order_id_start, index)

\* ExcelDataImporter.import_orders_from_excel: ok = FALSE is None
import_orders_from_excel(st, file) ==
    IF file.kind # "rows" THEN [st |-> st, ok |-> FALSE, orders |-> <<>>]
    ELSE excel_order_rows([st |-> st, ok |-> TRUE, orders |-> <<>>],
                          file.rows, st.next_order_id, 0)

\* import_all_data, what it does with the customers imported (c.ok = FALSE:
\* no file chosen, or None returned)
extend_customers(st, c) ==
    IF c.ok /\ c.customers # <<>>
    THEN [ st EXCEPT !.customers = @ \o c.customers,
                     !.next_customer_id = @ + Len(c.customers) ]
    ELSE st

\* import_all_data, what it does with the orders imported; o.st is the data
\* the order rows left
extend_orders(o) ==
    IF o.ok /\ o.orders # <<>>
    THEN [ o.st EXCEPT !.orders = @ \o o.orders,
                       !.next_order_id = @ + Len(o.orders) ]
    ELSE o.st

\* ExcelDataImporter.import_all_data
import_all_data(st, customers_file, orders_file) ==
    extend_orders(
        import_orders_from_excel(
            extend_customers(st, import_customers_from_excel(st, customers_file)),
            orders_file))

(***************************************************************************)
(* The database load.  The tables are the database's, not the              *)
(* application's: a load reads whatever they hold.                         *)
(***************************************************************************)
\* The numeric ids of the orders whose id starts with ORD and goes on with
\* an integer
NumericIds(os) ==
    { IntOfText(SubSeq(os[i].id, 4, Len(os[i].id))).v :
        i \in { j \in 1..Len(os) :
                  /\ Len(os[j].id) >= 3
                  /\ SubSeq(os[j].id, 1, 3) = <<"O", "R", "D">>
                  /\ IntOfText(SubSeq(os[j].id, 4, Len(os[j].id))).exc = "none" } }

Max(S) == CHOOSE x \in S : \A y \in S : y <= x

\* CustomerManagementSystem.load_from_database: connected is
\* db_manager.connection, db what DatabaseManager.load_from_database returns
\* (ok = FALSE: None, None)
load_from_database(st, connected, db) ==
    IF ~connected \/ ~db.ok THEN st
    ELSE [ st EXCEPT
             !.customers = db.customers,
             !.orders = db.orders,
             !.next_customer_id =
                IF db.customers # <<>>
                THEN Max({db.customers[i].id : i \in 1..Len(db.customers)}) + 1
                ELSE @,
             !.next_order_id =
                IF db.orders # <<>> /\ NumericIds(db.orders) # {}
                THEN Max(NumericIds(db.orders)) + 1
                ELSE @ ]

(***************************************************************************)
(* DatabaseManager.save_to_database.  The tables are sets of rows; now is  *)
(* CURRENT_TIMESTAMP, the time of the transaction.  The statements of      *)
(* _create_tables_if_not_exists leave tables that exist as they are.       *)
(***************************************************************************)
\* INSERT INTO customers ... VALUES: the row of a customer whose id is new;
\* created_at and updated_at default to CURRENT_TIMESTAMP
InsertedCustomer(customer, now) ==
    [ id |-> customer.id, full_name |-> customer.full_name,
      email |-> customer.email, phone |-> customer.phone,
      registration_date |-> customer.registration_date,
      notes |-> customer.notes, total_orders |-> customer.total_orders,
      total_spent |-> customer.total_spent,
      created_at |-> now, updated_at |-> now ]

\* ON CONFLICT (id) DO UPDATE SET of customers: the row keeps its
\* registration_date and its created_at
UpdatedCustomer(row, customer, now) ==
    [ row EXCEPT
        !.full_name = customer.full_name, !.email = customer.email,
        !.phone = customer.phone, !.notes = customer.notes,
        !.total_orders = customer.total_orders,
        !.total_spent = customer.total_spent, !.updated_at = now ]

\* The INSERT ... ON CONFLICT of one customer
upsert_customer(rows, customer, now) ==
    IF \E row \in rows : row.id = customer.id
    THEN { IF row.id = customer.id THEN UpdatedCustomer(row, customer, now) ELSE row :
             row \in rows }
    ELSE rows \cup {InsertedCustomer(customer, now)}

\* for customer in customers: self.cursor.execute(...)
RECURSIVE upsert_customers(_, _, _)
upsert_customers(rows, cs, now) ==
    IF cs = <<>> THEN rows
    ELSE upsert_customers(upsert_customer(rows, Head(cs), now), Tail(cs), now)

\* INSERT INTO orders ... VALUES: the row of an order whose id is new
InsertedOrder(order, now) ==
    [ id |-> order.id, customer_id |-> order.customer_id,
      customer_name |-> order.customer_name, order_date |-> order.date,
      book_title |-> order.book_title, author |-> order.author,
      genre |-> order.genre, quantity |-> order.quantity, price |-> order.price,
      discount |-> order.discount, final_price |-> order.final_price,
      total_amount |-> order.total_amount, status |-> order.status,
      delivery_method |-> order.delivery_method,
      order_notes |-> order.order_notes,
      created_at |-> now, updated_at |-> now ]

\* ON CONFLICT (id) DO UPDATE SET of orders, had it replaced the row
UpdatedOrderAnew(row, order, now) == InsertedOrder(order, now)

\* ON CONFLICT (id) DO UPDATE SET of orders: the row keeps its created_at
UpdatedOrder(row, order, now) ==
    [ InsertedOrder(order, now) EXCEPT !.created_at = row.created_at ]

\* The INSERT ... ON CONFLICT of one order
upsert_order(rows, order, now) ==
    IF \E row \in rows : row.id = order.id
    THEN { IF row.id = order.id THEN UpdatedOrder(row, order, now) ELSE row :
             row \in rows }
    ELSE rows \cup {InsertedOrder(order, now)}

\* customer_id INTEGER REFERENCES customers(id): the statement of an order
\* whose customer_id is the id of no row of customers raises
ForeignKeyHolds(customer_rows, order) ==
    \E row \in customer_rows : row.id = order.customer_id

\* for order in orders: self.cursor.execute(...); the statement number
\* raises is the one the server refuses (none when raises < 1);
\* ok = FALSE: a statement raised
RECURSIVE upsert_orders(_, _, _, _, _)
upsert_orders(rows, customer_rows, os, raises, now) ==
    IF os = <<>> THEN [ok |-> TRUE, rows |-> rows]
    ELSE IF raises = 1 \/ ~ForeignKeyHolds(customer_rows, Head(os))
    THEN [ok |-> FALSE, rows |-> rows]
    ELSE upsert_orders(upsert_order(rows, Head(os), now), customer_rows, Tail(os), raises - 1, now)

\* except Exception: self.connection.rollback(); return False
RolledBack(db, now) == [ ok |-> FALSE, db |-> [db EXCEPT !.clock = now] ]

\* self.connection.commit() and return True, or the rollback, after the
\* statements of the orders
Settled(db, customer_rows, order_rows, now) ==
    IF order_rows.ok
    THEN [ ok |-> TRUE,
           db |-> [customers |-> customer_rows, orders |-> order_rows.rows, clock |-> now] ]
    ELSE RolledBack(db, now)

\* The transaction from the statements of the orders on; customer_rows
\* are the rows of customers after the statements of the customers
SavedOrders(db, customer_rows, os, raises, now) ==
    Settled(db, customer_rows, upsert_orders(db.orders, customer_rows, os, raises, now), now)

\* The transaction, had it committed after the statements of the
\* customers
SavedInTwoCommits(db, cs, os, raises, now) ==
    IF raises \in 1..(1 + Len(cs)) THEN RolledBack(db, now)
    ELSE [ SavedOrders(db, upsert_customers(db.customers, cs, now), os, raises - 1 - Len(cs), now)
             EXCEPT !.db.customers = upsert_customers(db.customers, cs, now) ]

\* try: ... commit, except: rollback.  Statement 1 is
\* _create_tables_if_not_exists, then one statement for each customer,
\* then one for each order
Saved(db, cs, os, raises, now) ==
    IF raises \in 1..(1 + Len(cs)) THEN RolledBack(db, now)
    ELSE SavedOrders(db, upsert_customers(db.customers, cs, now), os, raises - 1 - Len(cs), now)

\* DatabaseManager.save_to_database: connected is self.connection, db the
\* tables before the call, raises the statement the server refuses (0:
\* none); ok is what it returns
db_save_to_database(db, connected, cs, os, raises) ==
    IF ~connected THEN [ok |-> FALSE, db |-> db]
    ELSE Saved(db, cs, os, raises, db.clock + 1)

(***************************************************************************)
(* Inputs: what the user types and what the files and the database hold.   *)
(***************************************************************************)
\* Both dialogs open with today's date in the date field.
CustomerForm(saved, full_name) ==
    [ saved |-> saved, full_name |-> full_name, email |-> Empty, phone |-> Empty,
      registration_date |-> Today, notes |-> Empty ]

CustomerForms ==
    { CustomerForm(TRUE, <<" ", "a">>),      \* valid, name "a"
      CustomerForm(TRUE, <<" ">>),           \* rejected: blank name
      CustomerForm(FALSE, <<"a">>) }         \* cancelled

\* What the customer dialog leaves in dialog.result
CustomerResults == { customer_dialog_result(form) : form \in CustomerForms }

OrderForm(saved, quantity, price, discount) ==
    [ saved |-> saved, date |-> Today, book_title |-> <<"t">>, author |-> Empty,
      genre |-> Empty, quantity |-> quantity, price |-> price,
      discount |-> discount, status |-> AwaitingPayment,
      delivery_method |-> Pickup, order_notes |-> Empty ]

OrderForms ==
    { OrderForm(TRUE, <<"3">>, <<"1", "0", "0">>, <<"1", "0">>),   \* 3 x 100, 10 %
      OrderForm(TRUE, <<"0">>, <<"1", "0", "0">>, <<"0">>),        \* rejected
      OrderForm(FALSE, <<"3">>, <<"1", "0", "0">>, <<"1", "0">>) } \* cancelled

\* What the order dialog leaves in dialog.result
OrderResults == { order_dialog_result(form) : form \in OrderForms }

\* Rows of a customer file
CustomerRows ==
    { [FIO |-> Null],
      [FIO |-> Txt(<<" ">>)],
      [FIO |-> Txt(<<"a">>)] }

Text_ORD002 == OrderId3(2)

\* Rows of an order file: quantity 3, price 100, discount 10, and a total
\* column that disagrees with them
OrderRow(name, total) ==
    [ FIO_klienta |-> name, Kolichestvo |-> Num(300), Cena_za_sht |-> Num(10000),
      Skidka_pct |-> Num(1000), Obshchaya_summa |-> total ]

OrderRows ==
    { OrderRow(Txt(<<"a">>), Num(99900)),
      [ FIO_klienta |-> Txt(<<"a">>), ID_zakaza |-> Txt(Text_ORD002),
        Kolichestvo |-> Num(0), Skidka_pct |-> Num(15000) ] }

RowFiles(Rows) == { RowsFile(rows) : rows \in UNION { [1..n -> Rows] : n \in 0..MaxRows } }

CsvCustomerFiles == RowFiles(CustomerRows) \cup {Unreadable}
CsvOrderFiles == RowFiles(OrderRows) \cup {Unreadable}
ExcelCustomerFiles == RowFiles(CustomerRows) \cup {Unreadable, NoFile}
ExcelOrderFiles == RowFiles(OrderRows) \cup {Unreadable, NoFile}

\* What the database may hold: nothing, or one customer and one order
DbOrder ==
    SampleOrder(OrderId3(1), 1, <<"a">>, Empty, 1, 100, 0, 100, 100, AwaitingPayment)

DbContents ==
    { [ok |-> FALSE, customers |-> <<>>, orders |-> <<>>],
      [ok |-> TRUE, customers |-> <<>>, orders |-> <<>>],
      [ok |-> TRUE, customers |-> <<Customer(1, <<"a">>, Empty, Empty, Today, Empty)>>,
       orders |-> <<DbOrder>>] }

Ids == 1..MaxId

\* Ids an orders-table row may show: the ids of the orders in the list and
\* one that is in no list
OrderIdsShown == {orders[i].id : i \in 1..Len(orders)} \cup {<<"?">>}

(***************************************************************************)
(* The state machine.                                                      *)
(***************************************************************************)
Cur == State(customers, orders, next_customer_id, next_order_id)

\* PostgreSQL before the first save: no rows; clock is the time of its
\* last transaction
NoRows == [customers |-> {}, orders |-> {}, clock |-> 0]

\* No sync thread was started
NoSync == <<>>

\* metabase_sync.py is not running
NoService == [pc |-> "off", attempts |-> 0, result |-> "none", interval_minutes |-> 5]

\* The application on its own
NothingOutside ==
    /\ stored = NoRows
    /\ metabase = NoSync
    /\ service = NoService

InBounds(st) ==
    /\ Len(st.customers) <= MaxCustomers
    /\ Len(st.orders) <= MaxOrders
    /\ st.next_customer_id <= MaxId
    /\ st.next_order_id <= MaxId

\* The handler op went through (cid, oid: the customer or the order a
\* delete was asked to remove; n: the number of orders delete_customer
\* announces), or a handler left without doing anything: a cancelled or
\* rejected dialog, a target that is not there, a cancelled file dialog.
Ran(op, done, cid, oid, n) ==
    IF done THEN [op |-> op, cid |-> cid, oid |-> oid, n |-> n]
    ELSE [op |-> "none", cid |-> 0, oid |-> Empty, n |-> 0]

NoProbe == [fn |-> "none", arg |-> Null, res |-> RInt(0)]

Becomes(st, ran) ==
    /\ InBounds(st)
    /\ customers' = st.customers
    /\ orders' = st.orders
    /\ next_customer_id' = st.next_customer_id
    /\ next_order_id' = st.next_order_id
    /\ last' = ran
    /\ UNCHANGED probe
    /\ UNCHANGED outside

\* What setup_database followed by load_data_from_csv leaves, for every
\* content of clients_100.csv and book_orders.csv: __init__ and
\* reload_all_data both end there.
StartupStates ==
    { reload_all_data(cf, of) :
        cf \in CsvCustomerFiles \cup {NoFile}, of \in CsvOrderFiles \cup {NoFile} }

\* The application after __init__: setup_database, then load_data_from_csv
Init ==
    /\ \E st \in StartupStates :
         /\ InBounds(st)
         /\ customers = st.customers
         /\ orders = st.orders
         /\ next_customer_id = st.next_customer_id
         /\ next_order_id = st.next_order_id
    /\ last = Ran("init", TRUE, 0, Empty, 0)
    /\ NothingOutside
    /\ probe = NoProbe

AddCustomer ==
    \E r \in CustomerResults :
        Becomes(add_customer(Cur, r), Ran("add_customer", r.ok, 0, Empty, 0))

EditCustomer ==
    \E customer_id \in Ids, r \in CustomerResults :
        Becomes(edit_customer(Cur, customer_id, r),
                Ran("edit_customer",
                    find_customer_by_id(customers, customer_id) # 0 /\ r.ok,
                    0, Empty, 0))

DeleteCustomer ==
    \E customer_id \in Ids, confirm \in BOOLEAN :
        Becomes(delete_customer(Cur, customer_id, confirm),
                Ran("delete_customer",
                    find_customer_by_id(customers, customer_id) # 0 /\ confirm,
                    customer_id, Empty,
                    Len(get_customer_orders(customer_id, orders))))

AddOrder ==
    \E selected \in Ids, r \in OrderResults :
        Becomes(add_order(Cur, selected, r),
                Ran("add_order",
                    find_customer_by_id(customers, selected) # 0 /\ r.ok,
                    0, Empty, 0))

EditSelectedOrder ==
    \E order_id \in OrderIdsShown, r \in OrderResults :
        Becomes(edit_selected_order(Cur, order_id, r),
                Ran("edit_selected_order",
                    /\ get_selected_order(orders, order_id) # 0
                    /\ r.ok
                    /\ find_customer_by_id(customers,
                         orders[get_selected_order(orders, order_id)].customer_id) # 0,
                    0, Empty, 0))

DeleteSelectedOrder ==
    \E order_id \in OrderIdsShown, confirm \in BOOLEAN :
        Becomes(delete_selected_order(Cur, order_id, confirm),
                Ran("delete_selected_order",
                    get_selected_order(orders, order_id) # 0 /\ confirm,
                    0, order_id, 0))

ManualLoadCustomers ==
    \E file \in CsvCustomerFiles \cup {NoFile} :
        Becomes(manual_load_customers(Cur, file),
                Ran("manual_load_customers", file.kind = "rows", 0, Empty, 0))

ManualLoadOrders ==
    \E file \in CsvOrderFiles \cup {NoFile} :
        Becomes(manual_load_orders(Cur, file),
                Ran("manual_load_orders", file.kind = "rows", 0, Empty, 0))

ReloadAllData ==
    \E st \in StartupStates :
        Becomes(st, Ran("reload_all_data", TRUE, 0, Empty, 0))

ImportAllData ==
    \E cf \in ExcelCustomerFiles, of \in ExcelOrderFiles :
        Becomes(import_all_data(Cur, cf, of),
                Ran("import_all_data", cf.kind = "rows" \/ of.kind = "rows",
                    0, Empty, 0))

LoadFromDatabase ==
    \E connected \in BOOLEAN, db \in DbContents :
        Becomes(load_from_database(Cur, connected, db),
                Ran("load_from_database", connected /\ db.ok, 0, Empty, 0))

Next ==
    \/ AddCustomer
    \/ EditCustomer
    \/ DeleteCustomer
    \/ AddOrder
    \/ EditSelectedOrder
    \/ DeleteSelectedOrder
    \/ ManualLoadCustomers
    \/ ManualLoadOrders
    \/ ReloadAllData
    \/ ImportAllData
    \/ LoadFromDatabase

Spec == Init /\ [][Next]_vars

\* The dialog-driven handlers alone
NextCrud ==
    \/ AddCustomer
    \/ EditCustomer
    \/ DeleteCustomer
    \/ AddOrder
    \/ EditSelectedOrder
    \/ DeleteSelectedOrder

SpecCrud == Init /\ [][NextCrud]_vars

\* The dialog-driven handlers, the CSV loads, the reload and the database load
NextCsv ==
    \/ AddCustomer
    \/ EditCustomer
    \/ DeleteCustomer
    \/ AddOrder
    \/ EditSelectedOrder
    \/ DeleteSelectedOrder
    \/ ManualLoadCustomers
    \/ ManualLoadOrders
    \/ ReloadAllData
    \/ LoadFromDatabase

SpecCsv == Init /\ [][NextCsv]_vars

\* The Excel import among additions and deletions
NextExcel ==
    \/ AddCustomer
    \/ DeleteCustomer
    \/ AddOrder
    \/ DeleteSelectedOrder
    \/ ImportAllData

SpecExcel == Init /\ [][NextExcel]_vars

(***************************************************************************)
(* The coercions on their own: a value arrives in a cell and one of the    *)
(* six coercions is applied to it; probe keeps the value and the outcome.  *)
(***************************************************************************)
ProbeCells ==
    { Null, Num(300), Num(350), Num(-350), Num(0), Inf(1), Inf(-1),
      Txt(<<"3", ".", "0">>), Txt(<<"3">>), Txt(<<" ", "7", " ">>),
      Txt(<<"x">>), Txt(<<>>), Txt(<<"i", "n", "f">>), Txt(<<"n", "a", "n">>),
      Txt(<<"2", "0", "2", "4", "-", "0", "1", "-", "1", "5">>),
      Txt(<<"1", "5", ".", "0", "1", ".", "2", "0", "2", "4">>),
      Txt(<<"3", "1", "/", "1", "2", "/", "2", "0", "2", "4">>),
      Txt(<<"1", "2", "/", "3", "1", "/", "2", "0", "2", "4">>),
      Txt(<<"0", "1", "/", "0", "2", "/", "2", "0", "2", "4">>),
      Txt(<<"2", "0", "2", "3", "-", "0", "2", "-", "2", "9">>),
      DateCell(<<"2", "0", "2", "4", "-", "0", "1", "-", "1", "5">>),
      DayCell(<<"2", "0", "2", "4", "-", "0", "1", "-", "1", "5">>) }

InitCoerce ==
    /\ customers = setup_database.customers
    /\ orders = setup_database.orders
    /\ next_customer_id = setup_database.next_customer_id
    /\ next_order_id = setup_database.next_order_id
    /\ last = Ran("init", TRUE, 0, Empty, 0)
    /\ NothingOutside
    /\ \E value \in ProbeCells : probe = [fn |-> "none", arg |-> value, res |-> RInt(0)]

Applies(fn, res) ==
    /\ probe' = [fn |-> fn, arg |-> probe.arg, res |-> res]
    /\ UNCHANGED <<customers, orders, next_customer_id, next_order_id, last>>
    /\ UNCHANGED outside

ParseInt == Applies("parse_int", parse_int(probe.arg))

ParseFloat == Applies("parse_float", parse_float(probe.arg))

ParseDate == Applies("parse_date", parse_date(probe.arg))

ExcelParseInt == Applies("_parse_int", excel_parse_int(probe.arg))

ExcelParseFloat == Applies("_parse_float", excel_parse_float(probe.arg))

ExcelParseDate == Applies("_parse_date", excel_parse_date(probe.arg))

NextCoerce ==
    \/ ParseInt
    \/ ParseFloat
    \/ ParseDate
    \/ ExcelParseInt
    \/ ExcelParseFloat
    \/ ExcelParseDate

SpecCoerce == InitCoerce /\ [][NextCoerce]_vars

(***************************************************************************)
(* The CSV loads on their own, on files whose rows name a customer of the  *)
(* list or nobody, with a quantity that is a number, text that is no       *)
(* number, or infinite.  probe keeps the handler, the files it was given   *)
(* and the exception that ended it ("none": it was not ended by one).      *)
(***************************************************************************)
BatchRow(name, quantity) ==
    [ FIO_klienta |-> Txt(name), Kolichestvo |-> quantity, Cena_za_sht |-> Num(10000) ]

BatchOrderRows ==
    { BatchRow(<<"a">>, Num(300)),
      BatchRow(<<"a">>, Txt(<<"x">>)),
      BatchRow(<<"a">>, Inf(1)),
      BatchRow(<<"z">>, Num(200)) }

BatchOrderFiles == RowFiles(BatchOrderRows) \cup {Unreadable, NoFile}

BatchCustomerFiles == RowFiles(CustomerRows) \cup {Unreadable, NoFile}

Loaded(fn, files, exc) == [fn |-> fn, arg |-> files, res |-> exc]

BecomesBy(st, ran, loaded) ==
    /\ InBounds(st)
    /\ customers' = st.customers
    /\ orders' = st.orders
    /\ next_customer_id' = st.next_customer_id
    /\ next_order_id' = st.next_order_id
    /\ last' = ran
    /\ probe' = loaded
    /\ UNCHANGED outside

\* The exception a manual load shows in its error box
LoadError(file, outcome) == IF file.kind = "absent" THEN "none" ELSE outcome.exc

LoadCustomersBatch ==
    \E file \in BatchCustomerFiles :
        BecomesBy(manual_load_customers(Cur, file),
                  Ran("manual_load_customers", file.kind = "rows", 0, Empty, 0),
                  Loaded("manual_load_customers", <<file>>,
                         LoadError(file, load_customers_from_csv(Cur, file))))

LoadOrdersBatch ==
    \E file \in BatchOrderFiles :
        BecomesBy(manual_load_orders(Cur, file),
                  Ran("manual_load_orders", file.kind = "rows", 0, Empty, 0),
                  Loaded("manual_load_orders", <<file>>,
                         LoadError(file, load_orders_from_csv(Cur, file))))

NextCsvBatch ==
    \/ LoadCustomersBatch
    \/ LoadOrdersBatch

SpecCsvBatch == Init /\ [][NextCsvBatch]_vars

(***************************************************************************)
(* The Excel import on its own, on order files of the same rows; the       *)
(* customers dialog is cancelled or its file cannot be read.               *)
(***************************************************************************)
ImportOrdersBatch ==
    \E cf \in {NoFile, Unreadable}, of \in BatchOrderFiles :
        BecomesBy(import_all_data(Cur, cf, of),
                  Ran("import_all_data", of.kind = "rows", 0, Empty, 0),
                  Loaded("import_all_data", <<cf, of>>,
                         IF Unreadable \in {cf, of} THEN "ReadError" ELSE "none"))

NextExcelBatch == ImportOrdersBatch

SpecExcelBatch == Init /\ [][NextExcelBatch]_vars

(***************************************************************************)
(* The reload among the CSV loads: clients_100.csv and book_orders.csv     *)
(* hold what the files above hold.                                         *)
(***************************************************************************)
\* The exception load_data_from_csv catches before it loads the sample data
ReloadError(clients_file, orders_file) ==
    IF clients_file.kind = "unreadable" THEN "ReadError"
    ELSE IF orders_file.kind = "absent" THEN "none"
    ELSE load_orders_from_csv(
            IF clients_file.kind = "absent" THEN load_sample_customers(setup_database)
            ELSE load_customers_from_csv(setup_database, clients_file).st,
            orders_file).exc

\* What reload_all_data leaves, for every content of the two files
BatchReloads ==
    { [ files |-> <<cf, of>>, st |-> reload_all_data(cf, of), exc |-> ReloadError(cf, of) ] :
        cf \in BatchCustomerFiles, of \in BatchOrderFiles }

ReloadBatch ==
    \E r \in BatchReloads :
        /\ InBounds(r.st)
        /\ customers' = r.st.customers
        /\ orders' = r.st.orders
        /\ next_customer_id' = r.st.next_customer_id
        /\ next_order_id' = r.st.next_order_id
        /\ last' = Ran("reload_all_data", TRUE, 0, Empty, 0)
        /\ probe' = Loaded("reload_all_data", r.files, r.exc)
        /\ UNCHANGED outside

NextReload ==
    \/ ReloadBatch
    \/ LoadCustomersBatch
    \/ LoadOrdersBatch

SpecReload == Init /\ [][NextReload]_vars

(***************************************************************************)
(* The column lookups on their own: a row of a customer file arrives and   *)
(* its name is looked up, by _get_value_from_row as the Excel importer     *)
(* does and by row.get as the CSV loader does.                             *)
(***************************************************************************)
\* column_mapping['ФИО'] of _process_customer_row
NameAliases == <<"FIO", "full_name", "Imya", "Klient", "FIO_klienta">>

\* The columns of 'ФИО', row.get('full_name', '') in load_customers_from_csv
CsvNameAliases == <<"FIO", "full_name">>

\* Rows with any of the first three name columns, each empty or holding a text
AliasRows ==
    UNION { [cols -> {Null, Txt(<<"a">>), Txt(<<"b">>)}] :
                cols \in SUBSET {"FIO", "full_name", "Imya"} }

InitAlias ==
    /\ customers = setup_database.customers
    /\ orders = setup_database.orders
    /\ next_customer_id = setup_database.next_customer_id
    /\ next_order_id = setup_database.next_order_id
    /\ last = Ran("init", TRUE, 0, Empty, 0)
    /\ NothingOutside
    /\ \E row \in AliasRows : probe = [fn |-> "none", arg |-> row, res |-> Null]

GetValueFromRow ==
    Applies("_get_value_from_row",
            excel_get_value_from_row(probe.arg, NameAliases, Txt(Empty)))

\* clean_string(row.get('ФИО', row.get('full_name', ''))): the lookup of
\* load_customers_from_csv, with the cleaning that follows it
RowGet ==
    Applies("row.get",
            Txt(clean_string(Get(probe.arg, "FIO", Get(probe.arg, "full_name", Txt(Empty))))))

NextAlias ==
    \/ GetValueFromRow
    \/ RowGet

SpecAlias == InitAlias /\ [][NextAlias]_vars

(***************************************************************************)
(* The lookups by name on their own: the list holds customers and a name   *)
(* read from an order file is looked up in it, by find_customer_by_name as *)
(* the CSV loader does and by _find_customer_by_name as the Excel importer *)
(* does.  probe keeps the name and the index found (0: None).              *)
(***************************************************************************)
LookupNames == { <<"a">>, <<"A", "b">>, <<"b", "a">> }

LookupQueries ==
    { <<" ", "a">>, <<"A">>, <<"b">>, <<"a", "b", " ">>, <<"c">>, <<>> }

\* Lists of up to MaxCustomers customers, with the ids 1, 2, ...
LookupDirectories ==
    UNION { { [ i \in 1..n |-> Customer(i, names[i], Empty, Empty, Today, Empty) ] :
                names \in [1..n -> LookupNames] } : n \in 0..MaxCustomers }

InitLookup ==
    /\ customers \in LookupDirectories
    /\ orders = <<>>
    /\ next_customer_id = Len(customers) + 1
    /\ next_order_id = 1
    /\ last = Ran("init", TRUE, 0, Empty, 0)
    /\ NothingOutside
    /\ \E name \in LookupQueries : probe = [fn |-> "none", arg |-> name, res |-> 0]

FindCustomerByName ==
    Applies("find_customer_by_name", find_customer_by_name(customers, probe.arg))

ExcelFindCustomerByName ==
    Applies("_find_customer_by_name", excel_find_customer_by_name(customers, probe.arg))

NextLookup ==
    \/ FindCustomerByName
    \/ ExcelFindCustomerByName

SpecLookup == InitLookup /\ [][NextLookup]_vars

(***************************************************************************)
(* The statistics of a customer on their own: the list holds orders of the *)
(* two sample customers and update_order_statistics asks for the           *)
(* statistics of a customer.  probe keeps the customer's id and the        *)
(* statistics.                                                             *)
(***************************************************************************)
StatsOrders ==
    { SampleOrder(OrderId3(1), customer_id, <<"k">>, date, 1, total_amount, 0,
                  total_amount, total_amount, AwaitingPayment) :
        customer_id \in {1, 2},
        date \in { <<"2", "0", "2", "4", "-", "0", "9", "-", "2", "7">>,
                   <<"2", "0", "2", "4", "-", "1", "0", "-", "0", "1">> },
        total_amount \in {40500, 81600} }

\* Lists of up to MaxOrders of them, with the ids ORD001, ORD002, ...
StatsOrderLists ==
    UNION { { [ i \in 1..n |-> [list[i] EXCEPT !.id = OrderId3(i)] ] :
                list \in [1..n -> StatsOrders] } : n \in 0..MaxOrders }

InitStats ==
    /\ customers = load_sample_customers(setup_database).customers
    /\ orders \in StatsOrderLists
    /\ next_customer_id = 3
    /\ next_order_id = Len(orders) + 1
    /\ last = Ran("init", TRUE, 0, Empty, 0)
    /\ NothingOutside
    /\ \E customer_id \in Ids :
          probe = [fn |-> "none", arg |-> customer_id, res |-> NoStatistics]

UpdateOrderStatistics ==
    Applies("get_customer_order_statistics",
            get_customer_order_statistics(probe.arg, orders))

NextStats == UpdateOrderStatistics

SpecStats == InitStats /\ [][NextStats]_vars

(***************************************************************************)
(* The reports on their own: the lists hold customers and their orders,    *)
(* the report tab holds a kind of report and two dates, and generate_report *)
(* writes the report.  probe keeps the kind, the dates and the report.     *)
(***************************************************************************)
\* The most customers of a list whose number of orders is not fixed
MaxFree == 3

\* A list starts with no customer whose number of orders is fixed, or with
\* two less of them than a customer_activity report shows
ReportHeads == {0, TopShown - 2}

\* The numbers of orders of the customers of a list: one for each of the
\* first heads customers, up to two for each of the others
ReportCounts ==
    UNION { { [ i \in 1..(heads + free) |-> IF i <= heads THEN 1 ELSE rest[i - heads] ] :
                rest \in [1..free -> 0..2] } :
            heads \in ReportHeads, free \in 0..MaxFree }

September == <<"2", "0", "2", "4", "-", "0", "9", "-", "2", "6">>
October == <<"2", "0", "2", "4", "-", "1", "0", "-", "0", "1">>

\* The i-th customer of a list: its name is the text of i
ReportCustomer(i) ==
    Customer(i, DigitsOf(i), Empty, Empty, IF i % 2 = 1 THEN September ELSE October, Empty)

\* An order of the i-th customer
ReportOrder(i) ==
    SampleOrder(Empty, i, DigitsOf(i), IF i % 2 = 1 THEN October ELSE September,
                1, 40500, 0, 40500, 40500,
                IF i % 2 = 1 THEN AwaitingPayment ELSE <<"d", "o", "n", "e">>)

\* counts[i] orders of the i-th customer, for the customers from i on
RECURSIVE ReportOrdersFrom(_, _)
ReportOrdersFrom(counts, i) ==
    IF i > Len(counts) THEN <<>>
    ELSE [ k \in 1..counts[i] |-> ReportOrder(i) ] \o ReportOrdersFrom(counts, i + 1)

\* The orders os with the ids ORD001, ORD002, ...
Numbered(os) == [ k \in 1..Len(os) |-> [ os[k] EXCEPT !.id = OrderId3(k) ] ]

ReportLists ==
    { [ customers |-> [ i \in 1..Len(counts) |-> ReportCustomer(i) ],
        orders |-> Numbered(ReportOrdersFrom(counts, 1)) ] : counts \in ReportCounts }

\* report_type: the four kinds of the report tab and one that is none of them
ReportKinds ==
    { "customer_summary", "registration_analysis", "order_statistics",
      "customer_activity", "other" }

\* What the entries date_from and date_to hold
ReportDates == { <<"2", "0", "2", "4", "-", "0", "9", "-", "0", "1">>, September }

InitReport ==
    /\ \E lists \in ReportLists :
          /\ customers = lists.customers
          /\ orders = lists.orders
    /\ next_customer_id = Len(customers) + 1
    /\ next_order_id = Len(orders) + 1
    /\ last = Ran("init", TRUE, 0, Empty, 0)
    /\ NothingOutside
    /\ \E report_type \in ReportKinds, date_from \in ReportDates, date_to \in ReportDates :
          probe = [ fn |-> "none",
                    arg |-> [ report_type |-> report_type,
                              date_from |-> date_from, date_to |-> date_to ],
                    res |-> [ report |-> "none" ] ]

\* CustomerManagementSystem.generate_report
GenerateReport ==
    Applies("generate_report",
            generate_report(probe.arg.report_type, customers, orders,
                            probe.arg.date_from, probe.arg.date_to))

NextReport == GenerateReport

SpecReport == InitReport /\ [][NextReport]_vars

(***************************************************************************)
(* Saving to PostgreSQL, and the Metabase sync that follows a save.        *)
(***************************************************************************)
MaxClock == 3          \* transactions of a run
MaxThreads == 1        \* sync threads of a run

\* What the customer dialog leaves in dialog.result when the user types
\* another registration date
DatedResults ==
    { customer_dialog_result([CustomerForm(TRUE, <<"a">>) EXCEPT !.registration_date = day]) :
        day \in {October} }

EditRegistrationDate ==
    \E customer_id \in Ids, r \in DatedResults :
        Becomes(edit_customer(Cur, customer_id, r),
                Ran("edit_customer", find_customer_by_id(customers, customer_id) # 0, 0, Empty, 0))

\* The statements of a transaction: _create_tables_if_not_exists, the
\* customers, the orders; 0 stands for no statement
Statements == 0..(1 + MaxCustomers + MaxOrders)

\* The message box of CustomerManagementSystem.save_to_database
Reported(connected, ok) ==
    IF ~connected THEN "no connection" ELSE IF ok THEN "saved" ELSE "not saved"

\* thread.start() of sync_after_save, when the save returned True and the
\* integration is set up, enabled and has auto_sync_on_save
Started(threads, ok, auto_sync) ==
    IF ok /\ auto_sync THEN Append(threads, "started") ELSE threads

\* CustomerManagementSystem.save_to_database, had it called
\* sync_after_save itself: the AttributeError of update_status reaches
\* its except branch
SaveThenSync(r, connected, raises, auto_sync) ==
    /\ stored.clock < MaxClock
    /\ auto_sync => Len(metabase) < MaxThreads
    /\ stored' = r.db
    /\ metabase' = IF r.ok /\ auto_sync THEN Append(metabase, "raised") ELSE metabase
    /\ probe' = [ fn |-> "save_to_database",
                  arg |-> [connected |-> connected, raises |-> raises, again |-> last.op = "save_to_database"],
                  res |-> IF r.ok /\ auto_sync THEN "error" ELSE Reported(connected, r.ok) ]
    /\ last' = Ran("save_to_database", r.ok, 0, Empty, 0)
    /\ UNCHANGED <<customers, orders, next_customer_id, next_order_id, service>>

\* CustomerManagementSystem.save_to_database with what
\* self.db_manager.save_to_database returned
Save(r, connected, raises, auto_sync) ==
    /\ stored.clock < MaxClock
    /\ auto_sync => Len(metabase) < MaxThreads
    /\ stored' = r.db
    /\ metabase' = Started(metabase, r.ok, auto_sync)
    /\ probe' = [ fn |-> "save_to_database",
                  arg |-> [connected |-> connected, raises |-> raises, again |-> last.op = "save_to_database"],
                  res |-> Reported(connected, r.ok) ]
    /\ last' = Ran("save_to_database", r.ok, 0, Empty, 0)
    /\ UNCHANGED <<customers, orders, next_customer_id, next_order_id, service>>

SaveToDatabase ==
    \E connected \in BOOLEAN, raises \in Statements, auto_sync \in BOOLEAN :
        /\ raises <= 1 + Len(customers) + Len(orders)
        /\ Save(db_save_to_database(stored, connected, customers, orders, raises), connected, raises, auto_sync)

\* MetabaseIntegration.sync_schema in the thread: it returns True or
\* False and raises nothing
SyncSchema ==
    \E i \in DOMAIN metabase, synced \in BOOLEAN :
        /\ metabase[i] = "started"
        /\ metabase' = [metabase EXCEPT ![i] = IF synced THEN "synced" ELSE "failed"]
        /\ UNCHANGED <<customers, orders, next_customer_id, next_order_id, last, probe, stored, service>>

\* self.update_status(...) in the thread: the class has no update_status,
\* the call raises AttributeError and the thread ends
UpdateStatus ==
    \E i \in DOMAIN metabase :
        /\ metabase[i] \in {"synced", "failed"}
        /\ metabase' = [metabase EXCEPT ![i] = "raised"]
        /\ UNCHANGED <<customers, orders, next_customer_id, next_order_id, last, probe, stored, service>>

NextDb ==
    \/ SaveToDatabase
    \/ EditRegistrationDate
    \/ ManualLoadCustomers

NextSync ==
    \/ SaveToDatabase
    \/ SyncSchema
    \/ UpdateStatus

\* The application started without its CSV files: the sample data
InitDb ==
    /\ customers = reload_all_data(NoFile, NoFile).customers
    /\ orders = reload_all_data(NoFile, NoFile).orders
    /\ next_customer_id = reload_all_data(NoFile, NoFile).next_customer_id
    /\ next_order_id = reload_all_data(NoFile, NoFile).next_order_id
    /\ last = Ran("init", TRUE, 0, Empty, 0)
    /\ NothingOutside
    /\ probe = NoProbe

SpecDb == InitDb /\ [][NextDb]_vars

SpecSync == InitDb /\ [][NextSync]_vars

(***************************************************************************)
(* metabase_sync.py: MetabaseSyncService.  MetabaseIntegration is imported *)
(* from a module outside this source: what its constructor and its         *)
(* sync_cms_data do is an input of run_sync.                               *)
(***************************************************************************)
MaxAttempts == 3       \* the attempts of run_continuous are counted modulo this

\* What a call of the imported class does: the constructor leaves a
\* session_id, leaves none, or raises; sync_cms_data returns something
\* true, something false, or raises
Sessions == {"present", "missing", "raises"}
Syncs == {"true", "false", "raises"}

\* What run_sync leaves: what it returns, whether sync_cms_data was
\* called, and the exception that leaves it
Returned(result, called) == [result |-> result, called |-> called, exc |-> "none"]

\* run_sync without its try: the exception of a step leaves it
run_sync_unguarded(session, connects, empty, synced) ==
    IF session = "raises" THEN [result |-> "none", called |-> FALSE, exc |-> "Exception"]
    ELSE IF session = "missing" THEN Returned("false", FALSE)
    ELSE IF ~connects THEN Returned("false", FALSE)
    ELSE IF empty THEN Returned("true", FALSE)
    ELSE IF synced = "raises" THEN [result |-> "none", called |-> TRUE, exc |-> "Exception"]
    ELSE Returned(synced, TRUE)

\* MetabaseSyncService.run_sync: connects is what connect_to_database
\* returns, empty whether get_customers_data and get_orders_data both
\* return no rows
run_sync(session, connects, empty, synced) ==
    IF session = "raises" THEN Returned("false", FALSE)
    ELSE IF session = "missing" THEN Returned("false", FALSE)
    ELSE IF ~connects THEN Returned("false", FALSE)
    ELSE IF empty THEN Returned("true", FALSE)
    ELSE IF synced = "raises" THEN Returned("false", TRUE)
    ELSE Returned(synced, TRUE)

\* The service goes on from pc after r left run_sync
Synced(r, pc, session, connects, empty, synced) ==
    /\ service' = [ service EXCEPT
                      !.pc = pc, !.result = r.result,
                      !.attempts = (@ + 1) % MaxAttempts ]
    /\ probe' = [ fn |-> "run_sync",
                  arg |-> [session |-> session, connects |-> connects, empty |-> empty, synced |-> synced],
                  res |-> r ]
    /\ UNCHANGED <<customers, orders, next_customer_id, next_order_id, last, stored, metabase>>

\* __main__ with --once: service.run_sync()
RunOnce ==
    \E session \in Sessions, connects \in BOOLEAN, empty \in BOOLEAN, synced \in Syncs :
        /\ service.pc = "off"
        /\ Synced(run_sync(session, connects, empty, synced),
                  IF run_sync(session, connects, empty, synced).exc = "none" THEN "done" ELSE "raised",
                  session, connects, empty, synced)

\* __main__ with --continuous: run_continuous enters while True
RunContinuous ==
    /\ service.pc = "off"
    /\ service' = [service EXCEPT !.pc = "try"]
    /\ UNCHANGED <<customers, orders, next_customer_id, next_order_id, last, probe, stored, metabase>>

\* self.run_sync() in the loop: on to time.sleep(interval_minutes * 60),
\* or to the except Exception branch when run_sync raises
RunSync ==
    \E session \in Sessions, connects \in BOOLEAN, empty \in BOOLEAN, synced \in Syncs :
        /\ service.pc = "try"
        /\ Synced(run_sync(session, connects, empty, synced),
                  IF run_sync(session, connects, empty, synced).exc = "none" THEN "sleep" ELSE "except",
                  session, connects, empty, synced)

\* time.sleep(interval_minutes * 60): it raises ValueError for a negative
\* interval, which the except Exception branch catches
Sleep ==
    /\ service.pc = "sleep"
    /\ service' = [service EXCEPT !.pc = IF service.interval_minutes < 0 THEN "except" ELSE "try"]
    /\ UNCHANGED <<customers, orders, next_customer_id, next_order_id, last, probe, stored, metabase>>

\* except Exception: time.sleep(60), and the loop goes on
Pause ==
    /\ service.pc = "except"
    /\ service' = [service EXCEPT !.pc = "try"]
    /\ UNCHANGED <<customers, orders, next_customer_id, next_order_id, last, probe, stored, metabase>>

\* KeyboardInterrupt: in the try it is caught and the loop breaks; in the
\* except Exception branch nothing catches it and it leaves run_continuous
Interrupt ==
    /\ service.pc \in {"try", "sleep", "except"}
    /\ service' = [service EXCEPT !.pc = IF service.pc = "except" THEN "interrupted" ELSE "break"]
    /\ UNCHANGED <<customers, orders, next_customer_id, next_order_id, last, probe, stored, metabase>>

\* --interval: any integer
Intervals == {-1, 0, 5}

InitService ==
    /\ customers = setup_database.customers
    /\ orders = setup_database.orders
    /\ next_customer_id = setup_database.next_customer_id
    /\ next_order_id = setup_database.next_order_id
    /\ last = Ran("init", TRUE, 0, Empty, 0)
    /\ stored = NoRows
    /\ metabase = NoSync
    /\ \E interval_minutes \in Intervals :
          service = [NoService EXCEPT !.interval_minutes = interval_minutes]
    /\ probe = NoProbe

NextService ==
    \/ RunOnce
    \/ RunContinuous
    \/ RunSync
    \/ Sleep
    \/ Pause
    \/ Interrupt

\* The loop is sequential code: each of its steps ends and the next one
\* is taken; nothing makes a KeyboardInterrupt happen
SpecService ==
    /\ InitService
    /\ [][NextService]_vars
    /\ WF_vars(RunSync)
    /\ WF_vars(Sleep)
    /\ WF_vars(Pause)

(***************************************************************************)
(* Properties.                                                             *)
(***************************************************************************)
CustomerIds(cs) == { cs[i].id : i \in 1..Len(cs) }

\* Every order's customer_id is the id of a customer in the list.
NoOrphans ==
    \A i \in 1..Len(orders) : orders[i].customer_id \in CustomerIds(customers)

CrudOps ==
    { "add_customer", "edit_customer", "delete_customer",
      "add_order", "edit_selected_order", "delete_selected_order" }

\* The k-th smallest member of a set of indices
Nth(S, k) == CHOOSE i \in S : Cardinality({ j \in S : j < i }) = k - 1

\* The elements of seq at the indices in keep, in their order in seq
Remaining(seq, keep) == [ k \in 1..Cardinality(keep) |-> seq[Nth(keep, k)] ]

\* C1: from a state in which every order's customer_id is the id of a
\* customer in the list, a step of add_customer, edit_customer,
\* delete_customer, add_order, edit_selected_order or delete_selected_order
\* leads to a state in which that still holds; so it holds after any
\* sequence of them.
C1_CrudKeepsNoOrphans ==
    [][(NoOrphans /\ last'.op \in CrudOps) => NoOrphans']_vars

\* A customer with orders has just been deleted and no order is orphaned.
C1_Witness ==
    /\ last.op = "delete_customer"
    /\ last.n >= 1
    /\ customers # <<>>
    /\ NoOrphans

\* C2: manual_load_customers, run in a state without orphan orders, leaves
\* a state in which every order's customer_id is the id of a customer in
\* the list (it must, if no observable state is to have an orphan order).
C2_CustomerLoadKeepsNoOrphans ==
    [][(NoOrphans /\ last'.op = "manual_load_customers") => NoOrphans']_vars

\* C3: a confirmed delete_customer(c) on a customer with N orders removes
\* exactly the N orders whose customer_id is c and exactly the customers
\* whose id is c; the other orders and customers stay as they were, in the
\* same relative order, and both counters keep their values.
C3_DeleteCustomerFrame ==
    [][last'.op = "delete_customer" =>
        LET c == last'.cid
            keptOrders == { i \in 1..Len(orders) : orders[i].customer_id # c }
            keptCustomers == { i \in 1..Len(customers) : customers[i].id # c }
        IN  /\ c \in CustomerIds(customers)
            /\ last'.n = Len(orders) - Cardinality(keptOrders)
            /\ Len(orders') = Len(orders) - last'.n
            /\ orders' = Remaining(orders, keptOrders)
            /\ customers' = Remaining(customers, keptCustomers)
            /\ Len(customers') < Len(customers)
            /\ next_customer_id' = next_customer_id
            /\ next_order_id' = next_order_id]_vars

\* A customer with orders has just been deleted; another customer and an
\* order of another customer are still there.
C3_Witness ==
    /\ last.op = "delete_customer"
    /\ last.n >= 1
    /\ orders # <<>>
    /\ \E i \in 1..Len(customers) : customers[i].id # last.cid

\* C4: no two customers in the list have the same id.
C4_UniqueCustomerIds ==
    \A i, j \in 1..Len(customers) : customers[i].id = customers[j].id => i = j

\* C5: after add_order no two orders in the list have the same id (as
\* they must be, if order ids are unique in every state).
C5_UniqueOrderIdsAfterAdd ==
    last.op = "add_order" =>
        \A i, j \in 1..Len(orders) : orders[i].id = orders[j].id => i = j

\* C6: the id of an order that has just been deleted is not the id that
\* the add_order following the deletion gives to the order it creates (as
\* it must be, if the id of a deleted order is never assigned to an order
\* created later).
C6_DeletedOrderIdNotReassigned ==
    [][(last.op = "delete_selected_order" /\ last'.op = "add_order")
          => orders'[Len(orders')].id # last.oid]_vars

\* C7: after manual_load_orders every order has
\* final_price = price * (1 - discount / 100) and
\* total_amount = final_price * quantity, whatever the final-price and
\* total columns of the file hold.
C7_LoadedPricesDerived ==
    last.op = "manual_load_orders" =>
        \A i \in 1..Len(orders) :
            /\ orders[i].final_price = FinalPrice(orders[i].price, orders[i].discount)
            /\ orders[i].total_amount = orders[i].final_price * orders[i].quantity

\* C8: every order in the list has quantity >= 1, price >= 0 and
\* 0 <= discount <= 100 (numbers in hundredths).
C8_OrderRanges ==
    \A i \in 1..Len(orders) :
        /\ orders[i].quantity >= 1
        /\ orders[i].price >= 0
        /\ orders[i].discount >= 0
        /\ orders[i].discount <= 10000

\* C9: every customer in the list has a full_name that is not empty after
\* trimming whitespace.
C9_NamesNotBlank ==
    \A i \in 1..Len(customers) : Strip(customers[i].full_name) # <<>>

\* C10: a coercion applied to a value returns without raising.
C10_CoercionsTotal ==
    probe.res.exc = "none"

\* The cell load_orders_from_csv reads the quantity of a row from
QuantityCell(row) == Get(row, "Kolichestvo", Get(row, "quantity", Num(100)))

\* The quantity of the row is a number
WellFormed(row) == ToFloat(QuantityCell(row)).k = "num"

\* Two orders that differ at most in their id (an id that was not in the
\* file counts the rows accepted before it)
SameButId(o1, o2) == [o1 EXCEPT !.id = Empty] = [o2 EXCEPT !.id = Empty]

\* The orders a load of the well-formed rows of a file alone leaves, with
\* the customers of the list
OrdersOfWellFormed(rows) ==
    csv_order_rows(State(customers, <<>>, next_customer_id, 1),
                   SelectSeq(rows, WellFormed)).st.orders

\* C11: after manual_load_orders of a file, every order that the
\* well-formed rows of the file give when they are loaded without the rows
\* whose quantity cannot be parsed is in the order list: a row that cannot
\* be parsed does not keep the rows after it from being loaded.
C11_BadRowKeepsBatch ==
    (probe.fn = "manual_load_orders" /\ probe.arg[1].kind = "rows") =>
        \A i \in 1..Len(OrdersOfWellFormed(probe.arg[1].rows)) :
            \E j \in 1..Len(orders) :
                SameButId(orders[j], OrdersOfWellFormed(probe.arg[1].rows)[i])

\* C12: a manual_load_customers or manual_load_orders that was ended by an
\* exception, raised while the file was opened or while a row was
\* processed, leaves the customer list, the order list, next_customer_id
\* and next_order_id as they were before it.
C12_AbortLeavesDataUnchanged ==
    [][(/\ probe'.fn \in {"manual_load_customers", "manual_load_orders"}
        /\ probe'.res # "none")
          => UNCHANGED <<customers, orders, next_customer_id, next_order_id>>]_vars

\* The customer a row of an order file names is in the list cs
Known(cs, row) ==
    find_customer_by_name(cs,
        clean_string(Get(row, "FIO_klienta", Get(row, "client_name", Txt(Empty))))) # 0

\* C13: manual_load_orders of a file leaves the customers and
\* next_customer_id as they were, and leaves the orders and the
\* next_order_id that the file without the rows naming no customer of the
\* list leaves: such a row adds no order and no customer and does not
\* advance next_order_id (which is one more than the number of orders
\* loaded), and the other rows are processed as without it.
C13_UnknownCustomerRowSkipped ==
    [][(probe'.fn = "manual_load_orders" /\ probe'.arg[1].kind = "rows") =>
        /\ customers' = customers
        /\ next_customer_id' = next_customer_id
        /\ next_order_id' = Len(orders') + 1
        /\ orders' = load_orders_from_csv(Cur,
                        RowsFile(SelectSeq(probe'.arg[1].rows,
                                    LAMBDA row : Known(customers, row)))).st.orders]_vars

\* An order file whose first row names nobody in the list and whose second
\* row names a customer of the list has been loaded: one order is there.
C13_Witness ==
    /\ probe.fn = "manual_load_orders"
    /\ probe.arg[1].kind = "rows"
    /\ Len(probe.arg[1].rows) = 2
    /\ ~Known(customers, probe.arg[1].rows[1])
    /\ Known(customers, probe.arg[1].rows[2])
    /\ Len(orders) = 1
    /\ next_order_id = 2

\* The customer name _process_order_row reads from a row
RowName(row) ==
    Stored(excel_get_value_from_row(row,
        <<"FIO_klienta", "client_name", "Klient", "FIO">>, Txt(Empty)))

\* The rows of an order file that name a customer _find_customer_by_name
\* does not find in cs and that no row before them names
FirstUnknown(cs, rows) ==
    { i \in 1..Len(rows) :
        /\ excel_find_customer_by_name(cs, RowName(rows[i])) = 0
        /\ \A j \in 1..(i - 1) : RowName(rows[j]) # RowName(rows[i]) }

\* C14: an import_all_data that reads an order file appends one customer
\* for each name of the file that is not found in the list, once however
\* many rows name it, with the ids next_customer_id, next_customer_id + 1,
\* ... and the auto-created note, and advances next_customer_id by their
\* number; every row adds an order to the list, with the customer_id of the
\* customer its name is found as.
C14_UnknownCustomerCreatedOnce ==
    [][(probe'.fn = "import_all_data" /\ probe'.arg[2].kind = "rows") =>
        LET rows == probe'.arg[2].rows
            new == FirstUnknown(customers, rows)
        IN  /\ Len(customers') = Len(customers) + Cardinality(new)
            /\ SubSeq(customers', 1, Len(customers)) = customers
            /\ \A k \in 1..Cardinality(new) :
                  customers'[Len(customers) + k] =
                      Customer(next_customer_id + k - 1, RowName(rows[Nth(new, k)]),
                               Empty, Empty, Today, AutoCreatedNote)
            /\ next_customer_id' = next_customer_id + Cardinality(new)
            /\ Len(orders') = Len(orders) + Len(rows)
            /\ \A i \in 1..Len(rows) :
                  /\ orders'[Len(orders) + i].customer_name = RowName(rows[i])
                  /\ orders'[Len(orders) + i].customer_id =
                        customers'[excel_find_customer_by_name(customers',
                                        RowName(rows[i]))].id]_vars

\* The name a row of a customer file gives its customer
CustomerRowName(row) == clean_string(Get(row, "FIO", Get(row, "full_name", Txt(Empty))))

\* The customers cs are the rows of a customer file that have a name, in
\* the order of the file, with the ids 1, 2, ...
ExactlyCustomerRows(cs, rows) ==
    LET accepted == SelectSeq(rows, LAMBDA row : CustomerRowName(row) # <<>>)
    IN  /\ Len(cs) = Len(accepted)
        /\ \A k \in 1..Len(cs) :
              cs[k].id = k /\ cs[k].full_name = CustomerRowName(accepted[k])

\* The orders os are the rows of an order file that name a customer of cs,
\* in the order of the file, each with the id of its customer
ExactlyOrderRows(os, cs, rows) ==
    LET accepted == SelectSeq(rows, LAMBDA row : Known(cs, row))
    IN  /\ Len(os) = Len(accepted)
        /\ \A k \in 1..Len(os) :
              /\ os[k].customer_name = RowName(accepted[k])
              /\ os[k].customer_id =
                    cs[find_customer_by_name(cs, RowName(accepted[k]))].id

\* C15: after reload_all_data on two files that are there and are read, the
\* customers are exactly the accepted rows of the customer file and the
\* orders exactly the accepted rows of the order file, next_customer_id and
\* next_order_id are one more than their numbers (so nothing of the data
\* held before is left); the same holds for the customers after
\* manual_load_customers and for the orders after manual_load_orders; and a
\* reload_all_data that follows a reload_all_data on the same files leaves
\* the data as it is.
C15_ReloadIsFullReplace ==
    [][/\ (/\ probe'.fn = "reload_all_data"
           /\ probe'.arg[1].kind = "rows"
           /\ probe'.arg[2].kind = "rows")
            => /\ ExactlyCustomerRows(customers', probe'.arg[1].rows)
               /\ next_customer_id' = Len(customers') + 1
               /\ ExactlyOrderRows(orders', customers', probe'.arg[2].rows)
               /\ next_order_id' = Len(orders') + 1
       /\ (/\ probe'.fn = "reload_all_data"
           /\ probe.fn = "reload_all_data"
           /\ probe'.arg = probe.arg)
            => UNCHANGED <<customers, orders, next_customer_id, next_order_id>>
       /\ (probe'.fn = "manual_load_customers" /\ probe'.arg[1].kind = "rows")
            => /\ ExactlyCustomerRows(customers', probe'.arg[1].rows)
               /\ next_customer_id' = Len(customers') + 1
       /\ (probe'.fn = "manual_load_orders" /\ probe'.arg[1].kind = "rows")
            => /\ ExactlyOrderRows(orders', customers', probe'.arg[1].rows)
               /\ next_order_id' = Len(orders') + 1]_vars

\* text is the YYYY-MM-DD form of what the first of the formats that the
\* trimmed text source matches reads from it, or today's date when it
\* matches none of them
FirstMatchOrToday(text, source, formats) ==
    LET matching == { k \in 1..Len(formats) : strptime(Strip(source), formats[k]).ok }
    IN  IF matching = {} THEN text = Today
        ELSE \E k \in matching :
                /\ \A j \in matching : k <= j
                /\ text = strftime(strptime(Strip(source), formats[k]))

Live(row, aliases) ==
    { k \in 1..Len(aliases) : aliases[k] \in DOMAIN row /\ ~IsNa(row[aliases[k]]) }

\* C17: the lookup of a field in a row returns the value of the first
\* alias, in the order of the alias list, whose column is in the row and
\* is not null, and the default ('' for the name) when there is no such
\* alias (the texts of the rows are clean: the CSV loader's cleaning leaves
\* them as they are).
C17_FirstLiveAliasWins ==
    probe.fn \in {"_get_value_from_row", "row.get"} =>
        LET aliases == IF probe.fn = "row.get" THEN CsvNameAliases ELSE NameAliases
            live == Live(probe.arg, aliases)
        IN  IF live = {} THEN probe.res = Txt(Empty)
            ELSE \E k \in live :
                    /\ \A j \in live : k <= j
                    /\ probe.res = probe.arg[aliases[k]]

\* The name of customer i of the list is the trimmed query, but for case
ExactMatch(i, query) == Lower(customers[i].full_name) = Lower(Strip(query))

\* The trimmed query is a piece of the name of customer i, but for case
PartMatch(i, query) ==
    LET q == Lower(Strip(query))
        n == Lower(customers[i].full_name)
    IN  \E from \in 1..(Len(n) + 1) :
            from + Len(q) - 1 <= Len(n) /\ SubSeq(n, from, from + Len(q) - 1) = q

\* found is the first of the indices in hits, or 0 when there is none
FirstOf(found, hits) ==
    IF hits = {} THEN found = 0
    ELSE found \in hits /\ \A j \in hits : found <= j

\* C18: find_customer_by_name returns the first customer whose name is the
\* trimmed query but for case, and None when there is none, whatever names
\* contain the query; _find_customer_by_name returns the first such
\* customer when there is one, wherever it is in the list, and otherwise
\* the first customer whose name contains the query, None when there is
\* none.
C18_LookupByName ==
    LET exact == { i \in 1..Len(customers) : ExactMatch(i, probe.arg) }
        part == { i \in 1..Len(customers) : PartMatch(i, probe.arg) }
    IN  /\ probe.fn = "find_customer_by_name" => FirstOf(probe.res, exact)
        /\ probe.fn = "_find_customer_by_name" =>
              IF exact # {} THEN FirstOf(probe.res, exact)
              ELSE FirstOf(probe.res, part)

\* _find_customer_by_name has returned the second customer of the list,
\* whose name is the query, although the name of the first contains the
\* query.
C18_Witness ==
    /\ probe.fn = "_find_customer_by_name"
    /\ probe.res = 2
    /\ PartMatch(1, probe.arg)
    /\ ~ExactMatch(1, probe.arg)
    /\ ExactMatch(2, probe.arg)

\* The sum of the total_amount of the orders at the indices in own
RECURSIVE AmountOver(_)
AmountOver(own) ==
    IF own = {} THEN 0
    ELSE LET i == CHOOSE j \in own : TRUE
         IN  orders[i].total_amount + AmountOver(own \ {i})

\* C19: the statistics of customer c have total_orders = the number of
\* orders of the list with customer_id c, total_amount = the sum of their
\* total_amount, average_order = total_amount / total_orders and
\* last_order = the greatest of their dates; with no such order they are
\* 0, 0, 0 and no last_order.  The orders of c they are computed over are
\* those of the list in the order of the list.
C19_OrderStatistics ==
    probe.fn = "get_customer_order_statistics" =>
        LET own == { i \in 1..Len(orders) : orders[i].customer_id = probe.arg }
            stats == probe.res
        IN  /\ get_customer_orders(probe.arg, orders) = Remaining(orders, own)
            /\ stats.total_orders = Cardinality(own)
            /\ stats.total_amount = AmountOver(own)
            /\ IF own = {}
               THEN /\ stats.average_order.num = 0
                    /\ ~stats.last_order.ok
               ELSE /\ stats.average_order.num = stats.total_amount
                    /\ stats.average_order.den = stats.total_orders
                    /\ stats.last_order.ok
                    /\ \E i \in own : orders[i].date = stats.last_order.s
                    /\ \A i \in own : ~TextLess(stats.last_order.s, orders[i].date)

\* The statistics of a customer with two orders have been computed: the
\* first is the later one and is the more expensive one.
C19_Witness ==
    /\ probe.fn = "get_customer_order_statistics"
    /\ probe.res.total_orders = 2
    /\ TextLess(orders[2].date, orders[1].date)
    /\ probe.res.last_order.s = orders[1].date
    /\ orders[1].total_amount > orders[2].total_amount

\* C20: the customer_summary report of the data has, as total revenue, the
\* sum of total_amount over all orders of the list, which is the total
\* revenue of the order_statistics report when there are orders, and, as
\* the number of customers with orders, the number of customers of the
\* list that have an order.
C20_SummaryRevenueIsOrderTotal ==
    /\ generate_customer_summary(customers, orders).total_revenue =
          AmountOver(1..Len(orders))
    /\ orders # <<>> =>
          generate_customer_summary(customers, orders).total_revenue =
              generate_order_statistics(orders).total_revenue
    /\ generate_customer_summary(customers, orders).customers_with_orders =
          Cardinality({ i \in 1..Len(customers) :
                          \E j \in 1..Len(orders) :
                              orders[j].customer_id = customers[i].id })


\* The number of orders of the i-th customer
OrdersOf(i) ==
    Cardinality({ k \in 1..Len(orders) : orders[k].customer_id = customers[i].id })

\* The i-th customer comes before the j-th in the ranking: it has more
\* orders, or as many and an earlier place in the list of customers
RanksBefore(i, j) ==
    \/ OrdersOf(i) > OrdersOf(j)
    \/ OrdersOf(i) = OrdersOf(j) /\ i < j

\* The place in the list of customers of the customer of a line (the names
\* of the customers of a list differ)
PlaceOf(line) == CHOOSE i \in 1..Len(customers) : customers[i].full_name = line.full_name

\* The customers with an order at least
Active == { i \in 1..Len(customers) : OrdersOf(i) > 0 }

\* C21: the lines of a customer_activity report are customers with an order
\* at least, each with its number of orders; a line's customer has more
\* orders than the customer of any later line, or as many and an earlier
\* place in the list of customers; the same holds between a line's customer
\* and any customer with orders that has no line; and there are as many
\* lines as customers with orders, 10 at most.
C21_ActivityRanking ==
    (probe.fn = "generate_report" /\ probe.arg.report_type = "customer_activity") =>
        /\ \A k \in 1..Len(probe.res.lines) :
              /\ \E i \in Active : customers[i].full_name = probe.res.lines[k].full_name
              /\ probe.res.lines[k].order_count = OrdersOf(PlaceOf(probe.res.lines[k]))
        /\ \A k, l \in 1..Len(probe.res.lines) :
              k < l => RanksBefore(PlaceOf(probe.res.lines[k]), PlaceOf(probe.res.lines[l]))
        /\ \A i \in Active :
              (\A k \in 1..Len(probe.res.lines) : PlaceOf(probe.res.lines[k]) # i)
                => \A k \in 1..Len(probe.res.lines) : RanksBefore(PlaceOf(probe.res.lines[k]), i)
        /\ Len(probe.res.lines) = IF Cardinality(Active) < 10 THEN Cardinality(Active) ELSE 10

\* A report that leaves a customer with orders out, and in which a customer
\* stands before an earlier customer with fewer orders and before a later
\* one with as many
C21_Witness ==
    /\ probe.fn = "generate_report"
    /\ probe.arg.report_type = "customer_activity"
    /\ Cardinality(Active) > 10
    /\ Len(probe.res.lines) = 10
    /\ \E k \in 1..9 :
          /\ PlaceOf(probe.res.lines[k]) > PlaceOf(probe.res.lines[k + 1])
          /\ probe.res.lines[k].order_count > probe.res.lines[k + 1].order_count
    /\ \E k \in 1..9 :
          /\ PlaceOf(probe.res.lines[k]) < PlaceOf(probe.res.lines[k + 1])
          /\ probe.res.lines[k].order_count = probe.res.lines[k + 1].order_count


\* C22: the report that generate_report wrote for a kind of report, the
\* customers and the orders is the report it writes for them with any other
\* date_from and date_to.
C22_ReportIgnoresDates ==
    probe.fn = "generate_report" =>
        \A date_from \in ReportDates, date_to \in ReportDates :
            probe.res = generate_report(probe.arg.report_type, customers, orders,
                                        date_from, date_to)

\* An order_statistics report over orders of which some have a date in the
\* range of the two dates and some have not
C22_Witness ==
    /\ probe.fn = "generate_report"
    /\ probe.arg.report_type = "order_statistics"
    /\ \E k \in 1..Len(orders) : TextLess(probe.arg.date_to, orders[k].date)
    /\ \E k \in 1..Len(orders) :
          /\ ~TextLess(orders[k].date, probe.arg.date_from)
          /\ ~TextLess(probe.arg.date_to, orders[k].date)
    /\ probe.res.head.total_orders = Len(orders)

\* A step of save_to_database that returned True, right after a
\* save_to_database that returned True: the lists are the same
SavedAgain ==
    /\ stored'.clock # stored.clock
    /\ probe'.fn = "save_to_database"
    /\ probe'.res = "saved"
    /\ probe'.arg.again

\* The rows without the column updated_at
ButUpdatedAt(rows) == { [row EXCEPT !.updated_at = 0] : row \in rows }

\* C23 as stated: running save_to_database twice in a row with the same
\* customers and orders leaves the content of the tables customers and
\* orders identical to running it once.
C23_SaveIdempotent ==
    [][SavedAgain =>
         /\ stored'.customers = stored.customers
         /\ stored'.orders = stored.orders]_vars

\* C23 amended: running save_to_database twice in a row with the same
\* customers and orders leaves the content of the tables customers and
\* orders, in every column but updated_at, identical to running it once.
C23_SaveIdempotentButUpdatedAt ==
    [][SavedAgain =>
         /\ ButUpdatedAt(stored'.customers) = ButUpdatedAt(stored.customers)
         /\ ButUpdatedAt(stored'.orders) = ButUpdatedAt(stored.orders)]_vars

C23_Witness ==
    /\ probe.fn = "save_to_database"
    /\ probe.res = "saved"
    /\ probe.arg.again
    /\ \E row \in stored.customers : row.created_at < row.updated_at
    /\ \E row \in stored.orders : row.created_at < row.updated_at

\* The row of customers holds what the customer holds in memory
CustomerStored(row, customer) ==
    /\ row.id = customer.id
    /\ row.full_name = customer.full_name
    /\ row.email = customer.email
    /\ row.phone = customer.phone
    /\ row.registration_date = customer.registration_date
    /\ row.notes = customer.notes

\* The row of orders holds what the order holds in memory
OrderStored(row, order) ==
    \E now \in 0..MaxClock : [row EXCEPT !.created_at = now, !.updated_at = now] = InsertedOrder(order, now)

\* save_to_database has just returned True
JustSaved ==
    /\ probe.fn = "save_to_database"
    /\ probe.res = "saved"
    /\ last.op = "save_to_database"

\* C25: after a successful save_to_database, for every customer and order
\* in memory the stored row with that id holds the current in-memory
\* value of every data field, also when the row existed from an earlier
\* save and the field was edited in between.
C25_SavedRowsCurrent ==
    JustSaved =>
        /\ \A i \in 1..Len(customers) :
              \A row \in stored.customers :
                  row.id = customers[i].id => CustomerStored(row, customers[i])
        /\ \A i \in 1..Len(orders) :
              \A row \in stored.orders :
                  row.id = orders[i].id => OrderStored(row, orders[i])

RowIds(rows) == { row.id : row \in rows }

\* This step is save_to_database
SaveStep == SaveToDatabase

\* The statement of a customer or of an order fails in this step: the
\* server refuses it, or the order is of a customer that neither has a
\* row nor is in the list
InsertFails ==
    /\ probe'.arg.connected
    /\ \/ probe'.arg.raises >= 2
       \/ \E i \in 1..Len(orders) :
             orders[i].customer_id \notin RowIds(stored.customers) \cup CustomerIds(customers)

\* Every customer and every order of the lists has a row written at now
AllCommitted(db, now) ==
    /\ \A i \in 1..Len(customers) :
          \E row \in db.customers : row.id = customers[i].id /\ row.updated_at = now
    /\ \A i \in 1..Len(orders) :
          \E row \in db.orders : row.id = orders[i].id /\ row.updated_at = now

\* C26: save_to_database is all-or-nothing.  When the statement of a
\* customer or an order fails no row of the call is stored and it returns
\* False; it returns True only with every row committed; without a
\* connection it returns False and leaves the database alone.
C26_SaveAllOrNothing ==
    [][SaveStep =>
         /\ ~probe'.arg.connected => probe'.res # "saved" /\ stored' = stored
         /\ InsertFails => probe'.res = "not saved"
         /\ probe'.res # "saved" =>
               /\ last'.op = "none"
               /\ stored'.customers = stored.customers
               /\ stored'.orders = stored.orders
         /\ probe'.res = "saved" =>
               /\ last'.op = "save_to_database"
               /\ AllCommitted(stored', stored'.clock)]_vars

\* The statement of an order failed after the statements of customers
\* that have no row
C26_Witness ==
    /\ probe.fn = "save_to_database"
    /\ probe.res = "not saved"
    /\ probe.arg.raises > 1 + Len(customers)
    /\ \E i \in 1..Len(customers) : customers[i].id \notin RowIds(stored.customers)

\* A thread is started in this step
ThreadStarts == Len(metabase') > Len(metabase)

\* A thread takes a step: sync_schema returns, or update_status raises
ThreadRuns == SyncSchema \/ UpdateStatus

\* C24: the sync thread is started only by a save that succeeded, the save
\* ends while the thread has not run, and no step of the thread, whatever
\* its outcome, changes the reported result of the save, the stored rows
\* or the lists in memory.
C24_SyncAfterSave ==
    [][/\ ThreadStarts =>
            /\ SaveToDatabase
            /\ probe'.res = "saved"
            /\ AllCommitted(stored', stored'.clock)
            /\ metabase' = Append(metabase, "started")
       /\ ThreadRuns =>
            /\ probe' = probe
            /\ last' = last
            /\ stored' = stored
            /\ customers' = customers
            /\ orders' = orders]_vars

\* The thread of a save that reported success has ended with an
\* exception, and the rows of that save are stored
C24_Witness ==
    /\ \E i \in DOMAIN metabase : metabase[i] = "raised"
    /\ probe.fn = "save_to_database"
    /\ probe.res = "saved"
    /\ AllCommitted(stored, stored.clock)

\* This step is a delete_selected_order that the user confirmed, of an
\* order the list holds
ConfirmedDelete ==
    /\ DeleteSelectedOrder
    /\ last'.op = "delete_selected_order"

\* C27: a confirmed delete_selected_order removes exactly one order, the
\* selected one, and leaves every other order, every customer and both
\* id counters unchanged, in every reachable state.
C27_DeleteRemovesOneOrder ==
    [][ConfirmedDelete =>
         /\ orders' = Remaining(orders, (1..Len(orders)) \ {get_selected_order(orders, last'.oid)})
         /\ customers' = customers
         /\ next_customer_id' = next_customer_id
         /\ next_order_id' = next_order_id]_vars

\* The customer as the dialog result r leaves it: five fields replaced
WithResult(customer, r) ==
    [ id |-> customer.id, full_name |-> r.full_name, email |-> r.email,
      phone |-> r.phone, registration_date |-> r.registration_date,
      notes |-> r.notes, total_orders |-> customer.total_orders,
      total_spent |-> customer.total_spent ]

\* The order as the dialog result r leaves it, but for final_price and
\* total_amount
OrderWithResult(order, r, final_price, total_amount) ==
    [ id |-> order.id, customer_id |-> order.customer_id,
      customer_name |-> order.customer_name,
      date |-> r.date, book_title |-> r.book_title, author |-> r.author,
      genre |-> r.genre, quantity |-> r.quantity, price |-> r.price,
      discount |-> r.discount, status |-> r.status,
      delivery_method |-> r.delivery_method, order_notes |-> r.order_notes,
      final_price |-> final_price, total_amount |-> total_amount ]

\* seq and its successor differ at most at position i
OnlyAt(seq, after, i) ==
    /\ Len(after) = Len(seq)
    /\ \A j \in 1..Len(seq) : j # i => after[j] = seq[j]

\* An edit_customer that went through: one customer has the fields of the
\* dialog, its id and its totals, the others are as before
CustomerEdited ==
    \E i \in 1..Len(customers), r \in CustomerResults :
        /\ r.ok
        /\ OnlyAt(customers, customers', i)
        /\ customers'[i] = WithResult(customers[i], r)

\* An edit_selected_order that went through: one order has the fields of
\* the dialog and the two amounts computed from them, its id and its
\* customer, the others are as before
OrderEdited ==
    \E i \in 1..Len(orders), r \in OrderResults :
        /\ r.ok
        /\ OnlyAt(orders, orders', i)
        /\ orders'[i] =
             OrderWithResult(orders[i], r,
                 (r.price * (10000 - r.discount)) \div 10000,
                 (r.quantity * r.price * (10000 - r.discount)) \div 10000)

\* C28: edit_customer replaces name, email, phone, registration date and
\* notes of one customer and leaves its id, the orders and both counters;
\* edit_selected_order replaces the editable fields of one order and
\* recomputes final_price and total_amount, and leaves its id and
\* customer_id, the other orders, the customers and both counters; a
\* cancelled dialog changes nothing.
C28_EditPreservesIdentity ==
    [][/\ EditCustomer =>
            /\ orders' = orders
            /\ next_customer_id' = next_customer_id
            /\ next_order_id' = next_order_id
            /\ IF last'.op = "edit_customer" THEN CustomerEdited
               ELSE customers' = customers
       /\ EditSelectedOrder =>
            /\ customers' = customers
            /\ next_customer_id' = next_customer_id
            /\ next_order_id' = next_order_id
            /\ IF last'.op = "edit_selected_order" THEN OrderEdited
               ELSE orders' = orders]_vars

\* An order was edited to 3 books of 100.00 at 10 % next to another order
C28_Witness ==
    /\ last.op = "edit_selected_order"
    /\ Len(orders) > 1
    /\ \E i \in 1..Len(orders) :
          /\ orders[i].quantity = 3
          /\ orders[i].final_price = 9000
          /\ orders[i].total_amount = 27000

\* The cell is a text that parse_date parses with one of its five formats
CsvParses(value) ==
    /\ value.t = "str"
    /\ \E k \in 1..Len(CsvDateFormats) : strptime(Strip(value.s), CsvDateFormats[k]).ok

\* C29: for every text that parse_date of the CSV path parses with one of
\* its five formats, _parse_date of the Excel path returns the same date.
C29_DateCoercionsAgree ==
    (probe.fn = "_parse_date" /\ CsvParses(probe.arg)) => probe.res = parse_date(probe.arg)

\* A step of run_sync, called once or from the loop
SyncStep == RunOnce \/ RunSync

\* A step of run_sync throws
Throws(arg) ==
    \/ arg.session = "raises"
    \/ arg.session = "present" /\ arg.connects /\ ~arg.empty /\ arg.synced = "raises"

\* What C30 says of one run_sync and of the step of the loop after it
SyncContained ==
    /\ SyncStep =>
         /\ probe'.res.exc = "none"
         /\ probe'.arg.session # "present" => probe'.res.result = "false"
         /\ ~probe'.arg.connects => probe'.res.result = "false"
         /\ Throws(probe'.arg) => probe'.res.result = "false"
         /\ (probe'.arg.session = "present" /\ probe'.arg.connects /\ probe'.arg.empty) =>
               probe'.res.result = "true" /\ ~probe'.res.called
    /\ RunSync => service'.pc = "sleep"
    /\ (service.pc \in {"try", "sleep", "except"} /\ service'.pc \notin {"try", "sleep", "except"}) =>
         Interrupt

\* C30: run_sync never raises; it returns False without a session,
\* without a connection and when a step throws, and True without calling
\* sync_cms_data when both tables are empty.  run_continuous goes on
\* after every sync, failed or not: every attempt is followed by another
\* unless a KeyboardInterrupt stops the loop, and nothing else stops it.
C30_SyncServiceKeepsLooping ==
    /\ [][SyncContained]_vars
    /\ \A n \in 0..(MaxAttempts - 1) :
          (service.pc = "sleep" /\ service.attempts = n)
              ~> (service.attempts # n \/ service.pc \in {"break", "interrupted"})

\* The loop has made another attempt after a sync that failed because
\* sync_cms_data raised
C30_Witness ==
    /\ service.pc = "try"
    /\ service.attempts = 2
    /\ service.result = "false"
    /\ probe.fn = "run_sync"
    /\ probe.res.called
    /\ probe.arg.synced = "raises"

============================================================================
